---- MODULE Spec2Model ----
(***************************************************************************)
(* A model of the tfp household-finance projection core: the withdrawal    *)
(* waterfall, the cost-basis tracker, the RMD and Roth-conversion helpers, *)
(* the tax calculator and the month-by-month engine that drives them.      *)
(*                                                                         *)
(* Money is an integer number of cents; the program's float arithmetic is  *)
(* modelled as fixed point, a product with a rate being rounded down to a  *)
(* whole cent.  The tolerance 0.01 of the engine is therefore 1 (cent).    *)
(* Ages are whole months (the engine computes age as months / 12).         *)
(***************************************************************************)
EXTENDS Integers, Sequences, FiniteSets, TLC

VARIABLES
    plan,       \* the immutable Plan the run or call is given
    balances,   \* balances: map account name -> cents (the engine's working set)
    cost_basis, \* CostBasisTracker.total_basis per taxable_brokerage account
    pc,         \* position of the run / of the harness around a helper call
    call,       \* the arguments of the helper call under way (its inputs)
    ret,        \* what the last helper call, or the run, returned
    month_pos,                  \* run_deterministic: index of the month being simulated
    loc,                        \* the month_* accumulators and the insolvent flag
    annual_by_year,             \* year -> AnnualResult
    monthly_results,            \* the MonthResults appended so far
    early_withdrawal_penalties, \* year -> penalties accrued
    annual_fica_withheld,       \* year -> FICA withheld
    annual_estimated_tax_paid,  \* year -> estimated tax paid
    roth_contribution_basis,    \* roth_ira account -> remaining contribution basis
    prior_year_end_balances,    \* balances at the last December close
    settle,                     \* locals of the December settlement loop
    obs                         \* history of the current month (observation only)

engineVars == <<month_pos, loc, annual_by_year, monthly_results, early_withdrawal_penalties, annual_fica_withheld, annual_estimated_tax_paid, roth_contribution_basis, prior_year_end_balances, settle, obs>>

vars == <<plan, balances, cost_basis, pc, call, ret, engineVars>>

\* a dictionary with no key
EmptyMap == [k \in {} |-> 0]

\* The engine's variables while a helper is exercised on its own.
EngineIdleButBasis ==
    /\ month_pos = 0
    /\ loc = EmptyMap
    /\ annual_by_year = EmptyMap
    /\ monthly_results = <<>>
    /\ early_withdrawal_penalties = EmptyMap
    /\ annual_fica_withheld = EmptyMap
    /\ annual_estimated_tax_paid = EmptyMap
    /\ prior_year_end_balances = EmptyMap
    /\ settle = EmptyMap
    /\ obs = EmptyMap

EngineIdle == EngineIdleButBasis /\ roth_contribution_basis = EmptyMap

engineVarsButBasis == <<month_pos, loc, annual_by_year, monthly_results, early_withdrawal_penalties, annual_fica_withheld, annual_estimated_tax_paid, prior_year_end_balances, settle, obs>>

Min(a, b) == IF a <= b THEN a ELSE b
Max(a, b) == IF a >= b THEN a ELSE b

\* floor(x * n / d) for x, n >= 0 and d > 0, without forming x * n.
MulDiv(x, n, d) == (x \div d) * n + ((x % d) * n) \div d

Range(s) == {s[i] : i \in 1..Len(s)}

----------------------------------------------------------------------------
(* Accounts.                                                               *)

\* age thresholds in months
PenaltyAgeMonths == 714

PENALTY_ACCOUNT_TYPES == {"401k", "traditional_ira", "roth_ira"}

AccountNamed(accounts, name) ==
    CHOOSE a \in Range(accounts) : a.name = name

AccountNames(accounts) == {accounts[i].name : i \in 1..Len(accounts)}

\* owner_ages.get(account.owner, 0.0)
OwnerAge(owner_ages, owner) ==
    IF owner \in DOMAIN owner_ages THEN owner_ages[owner] ELSE 0

_is_penalty_eligible(account, owner_ages) ==
    /\ account.type \in PENALTY_ACCOUNT_TYPES
    /\ OwnerAge(owner_ages, account.owner) < PenaltyAgeMonths

----------------------------------------------------------------------------
(* CostBasisTracker.withdraw: returns the realized gain and the new basis. *)

CostBasisWithdraw(total_basis, amount, balance_before) ==
    IF amount <= 0 \/ balance_before <= 0
    THEN [gain |-> 0, total_basis |-> total_basis]
    ELSE LET basis_reduction ==
                 IF total_basis >= balance_before
                 THEN amount
                 ELSE MulDiv(amount, Max(0, total_basis), balance_before)
         IN [gain |-> Max(0, amount - basis_reduction),
             total_basis |-> Max(0, total_basis - basis_reduction)]

\* add_basis without its guard on the amount
CostBasisAdd_Unguarded(total_basis, amount) == total_basis + amount

CostBasisAdd(total_basis, amount) ==
    IF amount <= 0 THEN total_basis ELSE total_basis + amount

----------------------------------------------------------------------------
(* The withdrawal waterfall.                                               *)

RECURSIVE KeepKnown(_, _)
KeepKnown(names, known) ==
    IF names = <<>> THEN <<>>
    ELSE IF Head(names) \in known
         THEN <<Head(names)>> \o KeepKnown(Tail(names), known)
         ELSE KeepKnown(Tail(names), known)

\* for account in accounts.values(): if pred and name not in names: append
RECURSIVE AppendAccountsOfType(_, _, _, _)
AppendAccountsOfType(accounts, i, account_type, names) ==
    IF i > Len(accounts) THEN names
    ELSE LET a == accounts[i]
             take == /\ (account_type = "*" \/ a.type = account_type)
                     /\ a.name \notin Range(names)
         IN AppendAccountsOfType(accounts, i + 1, account_type,
                                 IF take THEN Append(names, a.name) ELSE names)

RECURSIVE AppendByTypeOrder(_, _, _)
AppendByTypeOrder(accounts, order, names) ==
    IF order = <<>> THEN names
    ELSE AppendByTypeOrder(accounts, Tail(order),
                           AppendAccountsOfType(accounts, 1, Head(order), names))

_ordered_account_names(accounts, strategy) ==
    IF strategy.use_account_specific /\ strategy.account_specific_order # <<>>
    THEN KeepKnown(strategy.account_specific_order, AccountNames(accounts))
    ELSE AppendAccountsOfType(accounts, 1, "*",
                              AppendByTypeOrder(accounts, strategy.order, <<>>))

\* One pass over the ordered names.  st = [shortfall, balances, cost_basis,
\* events, realized_gains] is threaded through the loop.
RECURSIVE _withdraw_from_accounts(_, _, _, _, _, _)
_withdraw_from_accounts(st, ordered_names, accounts, cash_account_name, skip_penalty, owner_ages) ==
    IF ordered_names = <<>> \/ st.shortfall <= 0 THEN st
    ELSE
      LET name == Head(ordered_names)
          rest == Tail(ordered_names)
          account == AccountNamed(accounts, name)
          available == Max(0, st.balances[name])
          skip == \/ name = cash_account_name
                  \/ ~account.allow_withdrawals
                  \/ (skip_penalty /\ _is_penalty_eligible(account, owner_ages))
                  \/ available <= 0
          amount == Min(available, st.shortfall)
          balance_before == st.balances[name]
          tracked == account.type = "taxable_brokerage" /\ name \in DOMAIN st.cost_basis
          w == IF tracked
               THEN CostBasisWithdraw(st.cost_basis[name], amount, balance_before)
               ELSE [gain |-> 0, total_basis |-> 0]
          moved == [st.balances EXCEPT ![name] = @ - amount]
          st2 == [shortfall |-> st.shortfall - amount,
                  balances |-> [moved EXCEPT ![cash_account_name] = @ + amount],
                  cost_basis |-> IF tracked
                                 THEN [st.cost_basis EXCEPT ![name] = w.total_basis]
                                 ELSE st.cost_basis,
                  events |-> Append(st.events,
                                    [account |-> name, amount |-> amount,
                                     realized_gain |-> w.gain]),
                  realized_gains |-> st.realized_gains + w.gain]
      IN IF skip
         THEN _withdraw_from_accounts(st, rest, accounts, cash_account_name,
                                      skip_penalty, owner_ages)
         ELSE _withdraw_from_accounts(st2, rest, accounts, cash_account_name,
                                      skip_penalty, owner_ages)

\* the second pass drawing on accounts that do not allow withdrawals
cover_shortfall_AnyAccount(shortfall, bals, accounts, strategy, cash_account_name, basis, owner_ages) ==
    IF shortfall <= 0
    THEN [remaining |-> 0, events |-> <<>>, gains |-> 0,
          balances |-> bals, cost_basis |-> basis]
    ELSE
      LET ordered_names == _ordered_account_names(accounts, strategy)
          open == [i \in 1..Len(accounts) |-> [accounts[i] EXCEPT !.allow_withdrawals = TRUE]]
          st0 == [shortfall |-> shortfall, balances |-> bals, cost_basis |-> basis,
                  events |-> <<>>, realized_gains |-> 0]
          p1 == _withdraw_from_accounts(st0, ordered_names, accounts,
                                        cash_account_name, TRUE, owner_ages)
          p2 == IF p1.shortfall > 0
                THEN _withdraw_from_accounts(p1, ordered_names, open,
                                             cash_account_name, FALSE, owner_ages)
                ELSE p1
      IN [remaining |-> Max(0, p2.shortfall), events |-> p2.events,
          gains |-> p2.realized_gains,
          balances |-> p2.balances, cost_basis |-> p2.cost_basis]

\* cover_shortfall: returns [remaining, events, gains, balances, cost_basis]
\* (the last two are the dictionaries it mutates in place).
cover_shortfall(shortfall, bals, accounts, strategy, cash_account_name, basis, owner_ages) ==
    IF shortfall <= 0
    THEN [remaining |-> 0, events |-> <<>>, gains |-> 0,
          balances |-> bals, cost_basis |-> basis]
    ELSE
      LET ordered_names == _ordered_account_names(accounts, strategy)
          st0 == [shortfall |-> shortfall, balances |-> bals, cost_basis |-> basis,
                  events |-> <<>>, realized_gains |-> 0]
          p1 == _withdraw_from_accounts(st0, ordered_names, accounts,
                                        cash_account_name, TRUE, owner_ages)
          p2 == IF p1.shortfall > 0
                THEN _withdraw_from_accounts(p1, ordered_names, accounts,
                                             cash_account_name, FALSE, owner_ages)
                ELSE p1
      IN [remaining |-> Max(0, p2.shortfall), events |-> p2.events,
          gains |-> p2.realized_gains,
          balances |-> p2.balances, cost_basis |-> p2.cost_basis]

----------------------------------------------------------------------------
(* Harness for cover_shortfall as a function of its arguments.             *)

MaxBal == 2
MaxShortfall == 4

Acct(name, type, owner, allow) ==
    [name |-> name, type |-> type, owner |-> owner, allow_withdrawals |-> allow]

WfAccounts(brk_allow, ira_allow) ==
    << Acct("Cash", "cash", "primary", TRUE),
       Acct("Brk", "taxable_brokerage", "primary", brk_allow),
       Acct("Ira", "traditional_ira", "primary", ira_allow),
       Acct("Roth", "roth_ira", "spouse", TRUE) >>

WfSpecificOrders ==
    { <<>>,
      <<"Ira", "Brk", "Roth", "Cash">>,
      <<"Roth", "Cash", "Brk", "Ira">>,
      <<"Ira", "Roth">>,
      <<"Brk", "Nobody">> }

WfTypeOrders ==
    { <<>>,
      <<"roth_ira", "taxable_brokerage">>,
      <<"traditional_ira", "cash", "taxable_brokerage", "roth_ira">> }

WfAges == {713, 714}

WfInit ==
    /\ \E brk_allow \in BOOLEAN, ira_allow \in BOOLEAN,
          spec_order \in WfSpecificOrders, type_order \in WfTypeOrders,
          use_specific \in BOOLEAN :
         plan = [accounts |-> WfAccounts(brk_allow, ira_allow),
                 withdrawal_strategy |->
                     [order |-> type_order,
                      account_specific_order |-> spec_order,
                      use_account_specific |-> use_specific]]
    /\ \E b \in 0..MaxBal, i \in (0 - 1)..MaxBal, r \in 0..MaxBal :
         balances = [n \in {"Cash", "Brk", "Ira", "Roth"} |->
                        CASE n = "Cash" -> 0 [] n = "Brk" -> b
                          [] n = "Ira" -> i [] OTHER -> r]
    /\ cost_basis \in [{"Brk"} -> 0..1]
    /\ \E s \in 0..MaxShortfall, pa \in WfAges, sa \in {600, 720} :
         call = [shortfall |-> s,
                 owner_ages |-> [o \in {"primary", "spouse"} |->
                                    IF o = "primary" THEN pa ELSE sa],
                 balances_before |-> balances]
    /\ pc = "call"
    /\ ret = [remaining |-> 0, events |-> <<>>, gains |-> 0]
    /\ EngineIdle

WfCoverShortfall ==
    /\ pc = "call"
    /\ LET r == cover_shortfall(call.shortfall, balances, plan.accounts,
                                plan.withdrawal_strategy, "Cash", cost_basis,
                                call.owner_ages)
       IN /\ balances' = r.balances
          /\ cost_basis' = r.cost_basis
          /\ ret' = [remaining |-> r.remaining, events |-> r.events,
                     gains |-> r.gains]
    /\ pc' = "returned"
    /\ UNCHANGED <<plan, call, engineVars>>

WfNext == WfCoverShortfall

SpecWaterfall == WfInit /\ [][WfNext]_vars

----------------------------------------------------------------------------
(* Claims about cover_shortfall.                                           *)

WfReturned == pc = "returned"

EventAccount(e) == AccountNamed(plan.accounts, e.account)

\* a non-cash account that allows withdrawals and still holds money
StillFunded(a) ==
    /\ a.type # "cash"
    /\ a.allow_withdrawals
    /\ balances[a.name] > 0

\* C1: whatever order the strategy configures, no penalty-eligible account
\* (401k, traditional_ira or roth_ira whose owner is under 59.5) is debited
\* by a call while a non-penalty-eligible, non-cash account that allows
\* withdrawals still has a positive balance after the call.
C1_PenalizedOnlyAsLastResort ==
    WfReturned =>
        \A i \in 1..Len(ret.events) :
            _is_penalty_eligible(EventAccount(ret.events[i]), call.owner_ages) =>
                \A a \in Range(plan.accounts) :
                    ~_is_penalty_eligible(a, call.owner_ages) => ~StillFunded(a)

\* C2: a call returns a remaining shortfall > 0 only if afterwards every
\* non-cash account that allows withdrawals (penalty-eligible ones included)
\* has no positive balance left.
C2_RemainingOnlyWhenExhausted ==
    (WfReturned /\ ret.remaining > 0) =>
        \A a \in Range(plan.accounts) : ~StillFunded(a)

----------------------------------------------------------------------------
(* Required minimum distributions (rmd.py).                                *)

\* UNIFORM_LIFETIME_DIVISORS for ages 73..120, in tenths.
UNIFORM_LIFETIME_DIVISORS == << 265, 255, 246, 237, 229, 220, 211, 202, 194, 185, 177, 168, 160, 152, 144, 137, 129, 122, 115, 108, 101, 95, 89, 84, 78, 73, 68, 64, 60, 56, 52, 49, 46, 43, 41, 39, 37, 35, 34, 33, 31, 30, 29, 28, 27, 25, 23, 20 >>

MinDivisorAge == 73
MaxDivisorAge == MinDivisorAge + Len(UNIFORM_LIFETIME_DIVISORS) - 1

\* int(max(0.0, age_years)), the age being given in months
_age_whole_years(age_months) == Max(0, age_months) \div 12

\* divisor_for_age without the clamp to the table's last age
divisor_for_age_Unclamped(age_months) ==
    LET age == _age_whole_years(age_months)
    IN IF age < MinDivisorAge \/ age > MaxDivisorAge THEN 0
       ELSE UNIFORM_LIFETIME_DIVISORS[age - MinDivisorAge + 1]

\* The divisor in tenths; 0 stands for None.
divisor_for_age(age_months) ==
    LET age == _age_whole_years(age_months)
    IN IF age < MinDivisorAge THEN 0
       ELSE IF age <= MaxDivisorAge
            THEN UNIFORM_LIFETIME_DIVISORS[age - MinDivisorAge + 1]
            ELSE UNIFORM_LIFETIME_DIVISORS[Len(UNIFORM_LIFETIME_DIVISORS)]

compute_rmd_amount(prior_year_end_balance, age_months) ==
    LET divisor == divisor_for_age(age_months)
    IN IF divisor = 0 \/ prior_year_end_balance <= 0 THEN 0
       ELSE Max(0, MulDiv(prior_year_end_balance, 10, divisor))

\* balances.get(name, 0.0)
BalanceOf(bals, name) == IF name \in DOMAIN bals THEN bals[name] ELSE 0

\* The loop of execute_rmds; st = [balances, total_withdrawn].
RECURSIVE RmdLoop(_, _, _, _, _, _)
RmdLoop(st, names, settings, accounts, prior_balances, owner_ages) ==
    IF names = <<>> THEN st
    ELSE
      LET account_name == Head(names)
          known == account_name \in AccountNames(accounts)
          account == AccountNamed(accounts, account_name)
          owner_age == OwnerAge(owner_ages, account.owner)
          prior_balance ==
              Max(0, IF account_name \in DOMAIN prior_balances
                     THEN prior_balances[account_name]
                     ELSE BalanceOf(st.balances, account_name))
          target == compute_rmd_amount(prior_balance, owner_age)
          available == Max(0, BalanceOf(st.balances, account_name))
          amount == Min(available, target)
          skip == \/ ~known
                  \/ owner_age < 12 * settings.rmd_start_age
                  \/ target <= 0
                  \/ amount <= 0
          debited == [st.balances EXCEPT ![account_name] = @ - amount]
          st2 == [balances |-> [debited EXCEPT ![settings.destination_account] = @ + amount],
                  total_withdrawn |-> st.total_withdrawn + amount]
      IN RmdLoop(IF skip THEN st ELSE st2, Tail(names), settings, accounts,
                 prior_balances, owner_ages)

\* execute_rmds: returns [total_withdrawals, ordinary_income, balances].
execute_rmds(settings, accounts, bals, prior_balances, owner_ages) ==
    IF ~settings.enabled
    THEN [total_withdrawals |-> 0, ordinary_income |-> 0, balances |-> bals]
    ELSE LET st == RmdLoop([balances |-> bals, total_withdrawn |-> 0],
                           settings.accounts, settings, accounts,
                           prior_balances, owner_ages)
         IN [total_withdrawals |-> st.total_withdrawn,
             ordinary_income |-> st.total_withdrawn,
             balances |-> st.balances]

----------------------------------------------------------------------------
(* Harness for execute_rmds as a function of its arguments.                *)

MaxRmdUnits == 2

\* one unit of balance in the harness: 5,000.00
RmdUnit == 5000 * 100

RmdAccounts ==
    << Acct("Cash", "cash", "primary", TRUE),
       Acct("Ira", "traditional_ira", "primary", TRUE),
       Acct("K401", "401k", "spouse", TRUE),
       Acct("Brk", "taxable_brokerage", "primary", TRUE) >>

RmdAccountLists == { <<>>, <<"Ira">>, <<"K401", "Ira">> }

\* ages in months: 72y11m, 73y, 74y6m, 120y, 121y
RmdAges == {875, 876, 894, 1440, 1452}

RmdPriorBalances == {0, 26500000, RmdUnit}

RmdInit ==
    /\ \E en \in BOOLEAN, sa \in {70, 73, 75}, names \in RmdAccountLists, dest \in {"Cash", "Brk"} :
         plan = [accounts |-> RmdAccounts,
                 rmds |-> [enabled |-> en, rmd_start_age |-> sa,
                           accounts |-> names, destination_account |-> dest]]
    /\ \E i \in 0..MaxRmdUnits, k \in 0..MaxRmdUnits :
         balances = [n \in {"Cash", "Ira", "K401", "Brk"} |->
                        CASE n = "Ira" -> i * RmdUnit
                          [] n = "K401" -> k * RmdUnit - 1
                          [] OTHER -> 0]
    /\ cost_basis = [n \in {"Brk"} |-> 0]
    /\ \E pi \in RmdPriorBalances, pk \in RmdPriorBalances, pa \in RmdAges, sa \in RmdAges :
         call = [prior_year_end_balances |->
                     [n \in {"Cash", "Ira", "K401", "Brk"} |->
                         CASE n = "Ira" -> pi [] n = "K401" -> pk [] OTHER -> 0],
                 owner_ages |-> [o \in {"primary", "spouse"} |->
                                    IF o = "primary" THEN pa ELSE sa],
                 balances_before |-> balances]
    /\ pc = "call"
    /\ ret = [total_withdrawals |-> 0, ordinary_income |-> 0]
    /\ EngineIdle

RmdExecute ==
    /\ pc = "call"
    /\ LET r == execute_rmds(plan.rmds, plan.accounts, balances,
                             call.prior_year_end_balances, call.owner_ages)
       IN /\ balances' = r.balances
          /\ ret' = [total_withdrawals |-> r.total_withdrawals,
                     ordinary_income |-> r.ordinary_income]
    /\ pc' = "returned"
    /\ UNCHANGED <<plan, cost_basis, call, engineVars>>

RmdNext == RmdExecute

SpecRmd == RmdInit /\ [][RmdNext]_vars

----------------------------------------------------------------------------
(* Claims about execute_rmds.                                              *)

\* The divisor (in tenths) the Uniform Lifetime Table gives the ages of the
\* harness: none below 73, 26.5 at 73, 25.5 at 74, 2.0 at 120 and above.
RmdTableDivisor(age_years) ==
    CASE age_years < 73 -> 0
      [] age_years = 73 -> 265
      [] age_years = 74 -> 255
      [] age_years >= 120 -> 20

RmdOwnerAge(name) == call.owner_ages[AccountNamed(plan.accounts, name).owner]

\* priorYearEndBalance / divisor(whole age); 0 when the table has no divisor
RmdRequired(name) ==
    LET d == RmdTableDivisor(RmdOwnerAge(name) \div 12)
        prior == call.prior_year_end_balances[name]
    IN IF d = 0 \/ prior <= 0 THEN 0 ELSE (prior * 10) \div d

\* what the claim says is moved out of account `name`
RmdMoved(name) ==
    IF /\ plan.rmds.enabled
       /\ name \in Range(plan.rmds.accounts)
       /\ RmdOwnerAge(name) >= 12 * plan.rmds.rmd_start_age
    THEN Min(RmdRequired(name), Max(0, call.balances_before[name]))
    ELSE 0

RmdTotalMoved == RmdMoved("Ira") + RmdMoved("K401")

\* C10: for every configured RMD account whose owner has reached
\* rmd_start_age, execute_rmds moves exactly min(priorYearEndBalance /
\* divisor(whole age), available balance) from the account to the destination
\* account and returns the sum moved both as total withdrawals and as ordinary
\* income (265,000 at age 73 requires 10,000; ages above 120 use the age-120
\* divisor; ages below 73 require 0); disabled, it changes no balance and
\* returns zero.
C10_RmdMovesRequiredAmount ==
    pc = "returned" =>
        /\ \A n \in {"Ira", "K401"} :
              balances[n] = call.balances_before[n] - RmdMoved(n)
        /\ \A n \in {"Cash", "Brk"} :
              balances[n] = call.balances_before[n]
                  + (IF n = plan.rmds.destination_account THEN RmdTotalMoved ELSE 0)
        /\ ret.total_withdrawals = RmdTotalMoved
        /\ ret.ordinary_income = RmdTotalMoved
        /\ ~plan.rmds.enabled => (balances = call.balances_before /\ ret.total_withdrawals = 0)
        /\ ( /\ plan.rmds.enabled
             /\ plan.rmds.accounts = <<"Ira">>
             /\ plan.rmds.rmd_start_age <= 73
             /\ call.owner_ages["primary"] = 876
             /\ call.prior_year_end_balances["Ira"] = 26500000
             /\ call.balances_before["Ira"] >= 1000000 )
           => ret.total_withdrawals = 1000000

\* an RMD of 10,000.00 on 265,000.00 at 73, and one at an age above 120
C10_Witness ==
    /\ pc = "returned"
    /\ plan.rmds.enabled
    /\ plan.rmds.accounts = <<"K401", "Ira">>
    /\ call.owner_ages["primary"] = 876
    /\ call.owner_ages["spouse"] = 1452
    /\ call.prior_year_end_balances["Ira"] = 26500000
    /\ call.balances_before["Ira"] - balances["Ira"] = 1000000
    /\ call.balances_before["K401"] - balances["K401"] = 250000
    /\ ret.total_withdrawals = 1250000

----------------------------------------------------------------------------
(* Tax reference data (tax_data.py).  Bracket bounds are whole dollars as  *)
(* in the source; rates are whole percents; an upper bound of -1 is None.  *)

BASE_TAX_YEAR == 2026

FILING_STATUSES == {"single", "married_filing_jointly", "married_filing_separately", "head_of_household", "qualifying_surviving_spouse"}

B(upper, rate) == [upper |-> upper, rate |-> rate]

FEDERAL_BRACKETS(fs) ==
    CASE fs = "single" ->
           << B(12400, 10), B(50400, 12), B(105700, 22), B(201775, 24), B(256225, 32), B(640600, 35), B(0 - 1, 37) >>
      [] fs = "married_filing_jointly" ->
           << B(24800, 10), B(100800, 12), B(211400, 22), B(403550, 24), B(512450, 32), B(768700, 35), B(0 - 1, 37) >>
      [] fs = "married_filing_separately" ->
           << B(12400, 10), B(50400, 12), B(105700, 22), B(201775, 24), B(256225, 32), B(384350, 35), B(0 - 1, 37) >>
      [] fs = "head_of_household" ->
           << B(17700, 10), B(67450, 12), B(105700, 22), B(201750, 24), B(256200, 32), B(640600, 35), B(0 - 1, 37) >>
      [] fs = "qualifying_surviving_spouse" ->
           << B(24800, 10), B(100800, 12), B(211400, 22), B(403550, 24), B(512450, 32), B(768700, 35), B(0 - 1, 37) >>

\* dollars -> cents
Cents(dollars) == dollars * 100

\* x * (1 + inflation_rate) ** max(0, year - BASE_TAX_YEAR), the inflation
\* rate being a whole percent
RECURSIVE ScaleYears(_, _, _)
ScaleYears(x, inflation_pct, delta) ==
    IF delta <= 0 THEN x
    ELSE ScaleYears(MulDiv(x, 100 + inflation_pct, 100), inflation_pct, delta - 1)

_year_factor(x, year, inflation_pct) == ScaleYears(x, inflation_pct, Max(0, year - BASE_TAX_YEAR))

----------------------------------------------------------------------------
(* Roth conversions (roth.py).                                             *)

\* A date is "start", "end" or a year and a month ("YYYY-MM").
Ym(y, mth) == [kind |-> "ym", year |-> y, month |-> mth]
DateStart == [kind |-> "start", year |-> 0, month |-> 0]
DateEnd == [kind |-> "end", year |-> 0, month |-> 0]

_date_index(value, plan_start, plan_end) ==
    LET v == CASE value.kind = "start" -> plan_start
               [] value.kind = "end" -> plan_end
               [] OTHER -> value
    IN v.year * 12 + v.month

\* float(raw) / 100 of the text with "%" removed, as a whole percent;
\* -1 is None (no text, or text that is no number)
_parse_bracket_rate(fill_to_bracket) ==
    CASE fill_to_bracket = "10%" -> 10
      [] fill_to_bracket = "12%" -> 12
      [] fill_to_bracket = "22%" -> 22
      [] fill_to_bracket = " 22 % " -> 22
      [] fill_to_bracket = "24%" -> 24
      [] fill_to_bracket = "37%" -> 37
      [] OTHER -> 0 - 1

\* The first bracket of that marginal rate; its bound in cents, -1 for None.
RECURSIVE FirstBracketOfRate(_, _)
FirstBracketOfRate(brackets, marginal_rate) ==
    IF brackets = <<>> THEN 0 - 1
    ELSE IF Head(brackets).rate = marginal_rate
         THEN Head(brackets).upper
         ELSE FirstBracketOfRate(Tail(brackets), marginal_rate)

_bracket_upper_bound(filing_status, year, inflation_pct, marginal_rate) ==
    LET status == IF filing_status \in FILING_STATUSES THEN filing_status ELSE "single"
        upper == FirstBracketOfRate(FEDERAL_BRACKETS(status), marginal_rate)
    IN IF upper < 0 THEN 0 - 1
       ELSE _year_factor(Cents(upper), year, inflation_pct)

_active(conversion, current_index, plan_start, plan_end) ==
    /\ _date_index(conversion.start_date, plan_start, plan_end) <= current_index
    /\ current_index <= _date_index(conversion.end_date, plan_start, plan_end)

\* The loop of execute_roth_conversions; st = [balances, total_converted,
\* ordinary_income_added, projected_ordinary_income].
RECURSIVE RothLoop(_, _, _)
RothLoop(st, conversions, a) ==
    IF conversions = <<>> THEN st
    ELSE
      LET conversion == Head(conversions)
          source_balance == Max(0, BalanceOf(st.balances, conversion.from_account))
          fill == conversion.fill_to_bracket # ""
          rate == _parse_bracket_rate(conversion.fill_to_bracket)
          upper == _bracket_upper_bound(a.filing_status, a.current_year, a.inflation_rate, rate)
          room == Max(0, upper - st.projected_ordinary_income)
          amount == IF fill THEN Min(source_balance, room)
                    ELSE IF conversion.annual_amount >= 0
                         THEN Min(source_balance, Max(0, conversion.annual_amount \div 12))
                         ELSE 0
          skip == \/ ~_active(conversion, a.current_index, a.plan_start, a.plan_end)
                  \/ source_balance <= 0
                  \/ (fill /\ (a.current_month # 12 \/ rate < 0 \/ upper < 0))
                  \/ amount <= 0
          debited == [st.balances EXCEPT ![conversion.from_account] = @ - amount]
          st2 == [balances |-> [debited EXCEPT ![conversion.to_account] = @ + amount],
                  total_converted |-> st.total_converted + amount,
                  ordinary_income_added |-> st.ordinary_income_added + amount,
                  projected_ordinary_income |-> st.projected_ordinary_income + amount]
      IN RothLoop(IF skip THEN st ELSE st2, Tail(conversions), a)

\* execute_roth_conversions: `a` holds the scalar arguments (current_year,
\* current_month, current_index, plan_start, plan_end, filing_status,
\* inflation_rate, ytd_taxable_ordinary_income).
\* Returns [total_converted, ordinary_income_added, balances].
execute_roth_conversions(conversions, bals, a) ==
    LET st == RothLoop([balances |-> bals, total_converted |-> 0,
                        ordinary_income_added |-> 0,
                        projected_ordinary_income |-> Max(0, a.ytd_taxable_ordinary_income)],
                       conversions, a)
    IN [total_converted |-> st.total_converted,
        ordinary_income_added |-> st.ordinary_income_added,
        balances |-> st.balances]

----------------------------------------------------------------------------
(* Harness for execute_roth_conversions as a function of its arguments.    *)

MaxRothUnits == 2

\* one unit of source balance in the harness: 5,000.00
RothUnit == 5000 * 100

Conv(fill, annual, start, end) ==
    [name |-> "conv", from_account |-> "Trad", to_account |-> "Roth",
     annual_amount |-> annual, start_date |-> start, end_date |-> end,
     fill_to_bracket |-> fill]

\* annual_amount -1 is None; fill_to_bracket "" is None
RothConversionLists ==
    { <<>>,
      << Conv("22%", 0 - 1, Ym(2026, 1), Ym(2026, 12)) >>,
      << Conv(" 22 % ", 0 - 1, DateStart, DateEnd), Conv("24%", 0 - 1, DateStart, DateEnd) >>,
      << Conv("", 1200000, DateStart, DateEnd), Conv("22%", 0 - 1, DateStart, DateEnd) >>,
      << Conv("37%", 0 - 1, DateStart, DateEnd) >>,
      << Conv("abc", 0 - 1, DateStart, DateEnd) >>,
      << Conv("12%", 0 - 1, Ym(2027, 1), DateEnd) >> }

RothYtdIncomes == {0 - 100, 0, 10000000, 12000000}

RothInit ==
    /\ \E convs \in RothConversionLists, fs \in {"single", "married_filing_jointly", "bad_status"}, infl \in {0, 3} :
         plan = [roth_conversions |-> convs, filing_status |-> fs,
                 plan_settings |-> [plan_start |-> Ym(2026, 1), plan_end |-> Ym(2027, 12),
                                    inflation_rate |-> infl]]
    /\ \E t \in 0..MaxRothUnits :
         balances = [n \in {"Trad", "Roth"} |-> IF n = "Trad" THEN t * RothUnit ELSE 0]
    /\ cost_basis = [n \in {"Brk"} |-> 0]
    /\ \E y \in {2026, 2027}, mth \in {1, 11, 12}, ytd \in RothYtdIncomes :
         call = [current_year |-> y, current_month |-> mth,
                 current_index |-> y * 12 + mth,
                 plan_start |-> plan.plan_settings.plan_start,
                 plan_end |-> plan.plan_settings.plan_end,
                 filing_status |-> plan.filing_status,
                 inflation_rate |-> plan.plan_settings.inflation_rate,
                 ytd_taxable_ordinary_income |-> ytd,
                 balances_before |-> balances]
    /\ pc = "call"
    /\ ret = [total_converted |-> 0, ordinary_income_added |-> 0]
    /\ EngineIdle

RothExecute ==
    /\ pc = "call"
    /\ LET r == execute_roth_conversions(plan.roth_conversions, balances, call)
       IN /\ balances' = r.balances
          /\ ret' = [total_converted |-> r.total_converted,
                     ordinary_income_added |-> r.ordinary_income_added]
    /\ pc' = "returned"
    /\ UNCHANGED <<plan, cost_basis, call, engineVars>>

RothNext == RothExecute

SpecRoth == RothInit /\ [][RothNext]_vars

----------------------------------------------------------------------------
(* Claims about execute_roth_conversions.                                  *)

OnlyFillToBracket == \A i \in 1..Len(plan.roth_conversions) : plan.roth_conversions[i].fill_to_bracket # ""

\* C9: a fill-to-bracket conversion converts 0 in every non-December month;
\* in an active December a single filer in 2026 with year-to-date ordinary
\* income 100,000 and target bracket 22% converts 3,350 (the 22% ceiling
\* 103,350 minus the income), the source balance allowing.
C9_FillToBracketExample ==
    pc = "returned" =>
        /\ (OnlyFillToBracket /\ call.current_month # 12) => ret.total_converted = 0
        /\ ( /\ plan.roth_conversions = << Conv("22%", 0 - 1, Ym(2026, 1), Ym(2026, 12)) >>
             /\ call.filing_status = "single"
             /\ call.current_year = 2026
             /\ call.current_month = 12
             /\ call.ytd_taxable_ordinary_income = 10000000
             /\ call.balances_before["Trad"] >= 335000 )
           => /\ ret.total_converted = 335000
              /\ ret.ordinary_income_added = 335000

----------------------------------------------------------------------------
(* Tax calculator (tax.py).  Amounts are cents; every product with a rate  *)
(* is cut to whole cents.                                                  *)

CAPITAL_GAINS_BRACKETS(fs) ==
    CASE fs = "single" -> << B(50800, 0), B(557000, 15), B(0 - 1, 20) >>
      [] fs = "married_filing_jointly" -> << B(101600, 0), B(626350, 15), B(0 - 1, 20) >>
      [] fs = "married_filing_separately" -> << B(50800, 0), B(313175, 15), B(0 - 1, 20) >>
      [] fs = "head_of_household" -> << B(68050, 0), B(595350, 15), B(0 - 1, 20) >>
      [] fs = "qualifying_surviving_spouse" -> << B(101600, 0), B(626350, 15), B(0 - 1, 20) >>

STANDARD_DEDUCTIONS(fs) ==
    CASE fs = "single" -> 16100
      [] fs = "married_filing_jointly" -> 32200
      [] fs = "married_filing_separately" -> 16100
      [] fs = "head_of_household" -> 24150
      [] fs = "qualifying_surviving_spouse" -> 32200

NIIT_THRESHOLDS(fs) ==
    CASE fs = "single" -> 200000
      [] fs = "married_filing_jointly" -> 250000
      [] fs = "married_filing_separately" -> 125000
      [] fs = "head_of_household" -> 200000
      [] fs = "qualifying_surviving_spouse" -> 250000

AMT_EXEMPTIONS(fs) ==
    CASE fs = "single" -> [exemption |-> 88100, phaseout_start |-> 626350]
      [] fs = "married_filing_jointly" -> [exemption |-> 137000, phaseout_start |-> 1252700]
      [] fs = "married_filing_separately" -> [exemption |-> 68500, phaseout_start |-> 626350]
      [] fs = "head_of_household" -> [exemption |-> 88100, phaseout_start |-> 626350]
      [] fs = "qualifying_surviving_spouse" -> [exemption |-> 137000, phaseout_start |-> 1252700]

\* the AMT brackets are applied as they stand, in cents
AMT_BRACKETS == << B(Cents(220700), 26), B(0 - 1, 28) >>

\* flat state rates in basis points; a state the table lacks has rate 0
STATE_EFFECTIVE_RATES(state) ==
    CASE state = "CA" -> 930
      [] state = "PA" -> 307
      [] state = "TX" -> 0
      [] OTHER -> 0

_normalize_filing_status(filing_status) ==
    IF filing_status \in FILING_STATUSES THEN filing_status ELSE "single"

_adjusted_standard_deduction(filing_status, year, inflation_pct) ==
    _year_factor(Cents(STANDARD_DEDUCTIONS(_normalize_filing_status(filing_status))), year, inflation_pct)

\* base is the table entry of the normalized filing status; bounds in cents
_adjusted_brackets(base, year, inflation_pct) ==
    [i \in 1..Len(base) |->
        B(IF base[i].upper < 0 THEN 0 - 1 ELSE _year_factor(Cents(base[i].upper), year, inflation_pct),
          base[i].rate)]

RECURSIVE ProgressiveLoop(_, _, _, _)
ProgressiveLoop(remaining, lower, tax, brackets) ==
    IF brackets = <<>> \/ remaining <= 0 THEN tax
    ELSE LET upper == Head(brackets).upper
             rate == Head(brackets).rate
             taxable_at_rate == IF upper < 0 THEN remaining
                                ELSE Min(remaining, Max(0, upper - lower))
             tax2 == tax + MulDiv(taxable_at_rate, rate, 100)
         IN IF upper < 0 THEN tax2
            ELSE ProgressiveLoop(remaining - taxable_at_rate, upper, tax2, Tail(brackets))

_progressive_tax(amount, brackets) ==
    IF amount <= 0 THEN 0 ELSE Max(0, ProgressiveLoop(amount, 0, 0, brackets))

compute_federal_income_tax(taxable_income, filing_status, year, inflation_pct) ==
    _progressive_tax(taxable_income,
                     _adjusted_brackets(FEDERAL_BRACKETS(_normalize_filing_status(filing_status)), year, inflation_pct))

\* the whole 0% bracket whatever the ordinary income
_capital_gains_zero_bracket_room_Unstacked(ordinary_taxable_income, filing_status, year, inflation_pct) ==
    LET brackets == _adjusted_brackets(CAPITAL_GAINS_BRACKETS(_normalize_filing_status(filing_status)), year, inflation_pct)
    IN Max(0, brackets[1].upper)

_capital_gains_zero_bracket_room(ordinary_taxable_income, filing_status, year, inflation_pct) ==
    LET brackets == _adjusted_brackets(CAPITAL_GAINS_BRACKETS(_normalize_filing_status(filing_status)), year, inflation_pct)
        zero_cap == Max(0, brackets[1].upper)
    IN Max(0, zero_cap - Max(0, ordinary_taxable_income))

\* the loop over brackets[1:]; st = [remaining_gains, lower, tax]
RECURSIVE CapitalGainsLoop(_, _, _)
CapitalGainsLoop(st, brackets, other_taxable_income) ==
    IF brackets = <<>> \/ st.remaining_gains <= 0 THEN st
    ELSE LET upper == Head(brackets).upper
             rate == Head(brackets).rate
             effective_upper == Max(upper, other_taxable_income)
             effective_span == Max(0, effective_upper - Max(other_taxable_income, st.lower))
             taxable_at_rate == IF upper < 0 THEN st.remaining_gains
                                ELSE Min(st.remaining_gains, effective_span)
         IN CapitalGainsLoop([remaining_gains |-> st.remaining_gains - taxable_at_rate,
                              lower |-> IF upper < 0 THEN st.lower ELSE upper,
                              tax |-> st.tax + MulDiv(taxable_at_rate, rate, 100)],
                             Tail(brackets), other_taxable_income)

compute_capital_gains_tax(gains, other_taxable_income, filing_status, year, inflation_pct) ==
    IF gains <= 0 THEN 0
    ELSE LET brackets == _adjusted_brackets(CAPITAL_GAINS_BRACKETS(_normalize_filing_status(filing_status)), year, inflation_pct)
             zero_room == _capital_gains_zero_bracket_room(other_taxable_income, filing_status, year, inflation_pct)
             zero_bucket == Min(gains, zero_room)
             st == CapitalGainsLoop([remaining_gains |-> gains - zero_bucket,
                                     lower |-> Max(0, brackets[1].upper), tax |-> 0],
                                    Tail(brackets), other_taxable_income)
             tax == IF st.remaining_gains > 0
                    THEN st.tax + MulDiv(st.remaining_gains, 20, 100)
                    ELSE st.tax
         IN Max(0, tax)

compute_niit(investment_income, agi, filing_status, year, inflation_pct) ==
    IF investment_income <= 0 THEN 0
    ELSE LET threshold == _year_factor(Cents(NIIT_THRESHOLDS(_normalize_filing_status(filing_status))), year, inflation_pct)
             excess_agi == Max(0, agi - threshold)
             taxable_base == Min(Max(0, investment_income), excess_agi)
         IN MulDiv(taxable_base, 38, 1000)

compute_amt(income, deductions, filing_status, year, inflation_pct) ==
    LET base == AMT_EXEMPTIONS(_normalize_filing_status(filing_status))
        exemption0 == _year_factor(Cents(base.exemption), year, inflation_pct)
        phaseout_start == _year_factor(Cents(base.phaseout_start), year, inflation_pct)
        tentative_amt_income == Max(0, income - Max(0, deductions))
        exemption == IF tentative_amt_income > phaseout_start
                     THEN Max(0, exemption0 - (tentative_amt_income - phaseout_start) \div 4)
                     ELSE exemption0
        amt_taxable == Max(0, tentative_amt_income - exemption)
    IN _progressive_tax(amt_taxable, AMT_BRACKETS)

compute_state_tax(taxable_income, state, filing_status, year, inflation_pct) ==
    MulDiv(Max(0, taxable_income), STATE_EFFECTIVE_RATES(state), 10000)

\* standard_override -1 is None
compute_standard_vs_itemized(filing_status, year, itemized_details, standard_override, inflation_pct) ==
    LET standard == IF standard_override < 0
                    THEN _adjusted_standard_deduction(filing_status, year, inflation_pct)
                    ELSE standard_override
    IN Max(0, Max(standard, itemized_details))

\* compute_total_tax; an override of -1 is None (rate overrides are whole
\* percents, the state override basis points).  Returns the TaxResult.
compute_total_tax(summary, tax_settings, inflation_pct) ==
    LET filing_status == _normalize_filing_status(summary.filing_status)
        ordinary_income == Max(0, summary.ordinary_income)
        capital_gains == Max(0, summary.capital_gains)
        qualified_dividends == Max(0, summary.qualified_dividends)
        investment_income == Max(0, summary.investment_income)
        deduction == compute_standard_vs_itemized(filing_status, summary.year, summary.itemized_deductions,
                                                  tax_settings.standard_deduction_override, inflation_pct)
        taxable_ordinary == Max(0, ordinary_income - deduction)
        federal_tax == IF tax_settings.federal_effective_rate_override >= 0
                       THEN MulDiv(taxable_ordinary, tax_settings.federal_effective_rate_override, 100)
                       ELSE compute_federal_income_tax(taxable_ordinary, filing_status, summary.year, inflation_pct)
        gross_ltcg == capital_gains + qualified_dividends
        cap_tax == IF tax_settings.capital_gains_rate_override >= 0
                   THEN MulDiv(gross_ltcg, tax_settings.capital_gains_rate_override, 100)
                   ELSE compute_capital_gains_tax(gross_ltcg, taxable_ordinary, filing_status, summary.year, inflation_pct)
        agi == ordinary_income + gross_ltcg
        niit_tax == IF tax_settings.niit_enabled
                    THEN compute_niit(Max(investment_income, gross_ltcg), agi, filing_status, summary.year, inflation_pct)
                    ELSE 0
        amt_tax == IF tax_settings.amt_enabled
                   THEN Max(0, compute_amt(agi, deduction, filing_status, summary.year, inflation_pct)
                               - (federal_tax + cap_tax))
                   ELSE 0
        state_tax == IF tax_settings.state_effective_rate_override >= 0
                     THEN Max(0, MulDiv(taxable_ordinary, tax_settings.state_effective_rate_override, 10000))
                     ELSE compute_state_tax(taxable_ordinary, summary.state, filing_status, summary.year, inflation_pct)
        penalty == Max(0, summary.early_withdrawal_penalty)
        total == federal_tax + cap_tax + niit_tax + amt_tax + state_tax + penalty
    IN [federal_income_tax |-> Max(0, federal_tax),
        capital_gains_tax |-> Max(0, cap_tax),
        niit_tax |-> Max(0, niit_tax),
        amt_tax |-> Max(0, amt_tax),
        state_income_tax |-> Max(0, state_tax),
        early_withdrawal_penalty |-> penalty,
        total_tax |-> Max(0, total),
        deduction_used |-> Max(0, deduction),
        taxable_ordinary_income |-> Max(0, taxable_ordinary)]

----------------------------------------------------------------------------
(* The engine (engine.py): helpers of run_deterministic.                   *)

\* the months from start through end: <<[year, month, index], ...>>
RECURSIVE IterMonthsFrom(_, _, _, _)
IterMonthsFrom(current_y, current_m, ey, em) ==
    IF (current_y < ey) \/ (current_y = ey /\ current_m <= em)
    THEN << [year |-> current_y, month |-> current_m, index |-> current_y * 12 + current_m] >>
         \o (IF current_m + 1 > 12
             THEN IterMonthsFrom(current_y + 1, 1, ey, em)
             ELSE IterMonthsFrom(current_y, current_m + 1, ey, em))
    ELSE <<>>

_iter_months(start, end) == IterMonthsFrom(start.year, start.month, end.year, end.month)

\* age in months (the code divides by 12.0)
_age_years_at_month(birthday_ym, year, month) ==
    Max(0, (year - birthday_ym.year) * 12 + (month - birthday_ym.month))

\* the last cash account taken instead of the first
_pick_cash_account_Last(accounts) ==
    LET i == CHOOSE k \in 1..Len(accounts) :
                 /\ accounts[k].type = "cash"
                 /\ \A j \in (k + 1)..Len(accounts) : accounts[j].type # "cash"
    IN accounts[i].name

_pick_cash_account(accounts) ==
    LET i == CHOOSE k \in 1..Len(accounts) :
                 /\ accounts[k].type = "cash"
                 /\ \A j \in 1..(k - 1) : accounts[j].type # "cash"
    IN accounts[i].name

_is_active(start_date, end_date, current_index, plan_start, plan_end) ==
    /\ _date_index(start_date, plan_start, plan_end) <= current_index
    /\ current_index <= _date_index(end_date, plan_start, plan_end)

\* frequency "monthly", "annual" or "one_time"
_occurs_this_month(item, cur, plan_start, plan_end) ==
    /\ _is_active(item.start_date, item.end_date, cur.index, plan_start, plan_end)
    /\ LET start_index == _date_index(item.start_date, plan_start, plan_end)
       IN CASE item.frequency = "monthly" -> TRUE
            [] item.frequency = "annual" -> cur.month = ((start_index - 1) % 12) + 1
            [] item.frequency = "one_time" -> cur.index = start_index
            [] OTHER -> FALSE

\* an annual income is collected in every active month, a twelfth each
_active_income_items(items, cur, plan_start, plan_end) ==
    SelectSeq(items, LAMBDA item :
        IF item.frequency = "annual"
        THEN _is_active(item.start_date, item.end_date, cur.index, plan_start, plan_end)
        ELSE _occurs_this_month(item, cur, plan_start, plan_end))

_active_expense_items(items, cur, plan_start, plan_end) ==
    SelectSeq(items, LAMBDA item : _occurs_this_month(item, cur, plan_start, plan_end))

\* change_over_time "fixed": the multiplier is 1 in every year
_amount_for_month(item) == item.amount

RECURSIVE SumSeq(_)
SumSeq(amounts) == IF amounts = <<>> THEN 0 ELSE Head(amounts) + SumSeq(Tail(amounts))

\* dict.setdefault(key, value)
SetDefault(map, key, value) ==
    [k \in DOMAIN map \cup {key} |-> IF k \in DOMAIN map THEN map[k] ELSE value]

\* _record_roth_basis_contribution
_record_roth_basis_contribution(basis, account_name, amount) ==
    IF amount <= 0 \/ account_name \notin DOMAIN basis THEN basis
    ELSE [basis EXCEPT ![account_name] = @ + amount]

\* _handle_early_withdrawal_effects, with the basis dictionary it updates:
\* returns [ordinary_income, penalty, basis].
_handle_early_withdrawal_effects_PenalizeWholeRoth(account, amount, owner_ages, basis) ==
    IF amount <= 0 THEN [ordinary_income |-> 0, penalty |-> 0, basis |-> basis]
    ELSE IF account.type \in {"401k", "traditional_ira"}
    THEN [ordinary_income |-> amount,
          penalty |-> IF OwnerAge(owner_ages, account.owner) < PenaltyAgeMonths THEN MulDiv(amount, 10, 100) ELSE 0,
          basis |-> basis]
    ELSE IF account.type = "roth_ira"
    THEN [ordinary_income |-> 0,
          penalty |-> IF OwnerAge(owner_ages, account.owner) < PenaltyAgeMonths THEN MulDiv(amount, 10, 100) ELSE 0,
          basis |-> [basis EXCEPT ![account.name] = Max(0, @ - amount)]]
    ELSE [ordinary_income |-> 0, penalty |-> 0, basis |-> basis]

_handle_early_withdrawal_effects(account, amount, owner_ages, basis) ==
    LET owner_age == OwnerAge(owner_ages, account.owner)
        roth_basis == IF account.name \in DOMAIN basis THEN basis[account.name] ELSE 0
        earnings_withdrawn == Max(0, amount - roth_basis)
        basis2 == [k \in DOMAIN basis \cup {account.name} |->
                      IF k = account.name THEN Max(0, roth_basis - amount) ELSE basis[k]]
    IN IF amount <= 0 THEN [ordinary_income |-> 0, penalty |-> 0, basis |-> basis]
       ELSE IF account.type \in {"401k", "traditional_ira"}
       THEN [ordinary_income |-> amount,
             penalty |-> IF owner_age < PenaltyAgeMonths THEN MulDiv(amount, 10, 100) ELSE 0,
             basis |-> basis]
       ELSE IF account.type = "roth_ira"
       THEN [ordinary_income |-> 0,
             penalty |-> IF owner_age < PenaltyAgeMonths THEN MulDiv(earnings_withdrawn, 10, 100) ELSE 0,
             basis |-> basis2]
       ELSE [ordinary_income |-> 0, penalty |-> 0, basis |-> basis]

\* The loop `for event in events` of the three waterfall call sites;
\* st = [ordinary_income, penalty, basis, effects], effects keeping what
\* each event met and produced.
RECURSIVE ApplyEvents(_, _, _, _)
ApplyEvents(st, events, accounts, owner_ages) ==
    IF events = <<>> THEN st
    ELSE LET event == Head(events)
             account == AccountNamed(accounts, event.account)
             r == _handle_early_withdrawal_effects(account, event.amount, owner_ages, st.basis)
         IN ApplyEvents([ordinary_income |-> st.ordinary_income + r.ordinary_income,
                         penalty |-> st.penalty + r.penalty,
                         basis |-> r.basis,
                         effects |-> Append(st.effects,
                             [type |-> account.type, name |-> account.name,
                              owner_age |-> OwnerAge(owner_ages, account.owner),
                              amount |-> event.amount,
                              basis_before |-> IF account.name \in DOMAIN st.basis THEN st.basis[account.name] ELSE 0,
                              basis_after |-> IF account.name \in DOMAIN r.basis THEN r.basis[account.name] ELSE 0,
                              ordinary_income |-> r.ordinary_income,
                              penalty |-> r.penalty])],
                        Tail(events), accounts, owner_ages)

----------------------------------------------------------------------------
(* Harness for the early-withdrawal effects of a list of waterfall events. *)

MaxEffUnits == 3

\* one unit of withdrawal in the harness: 12.50
EffUnit == 1250

EffAccounts ==
    << Acct("Cash", "cash", "primary", TRUE),
       Acct("Brk", "taxable_brokerage", "primary", TRUE),
       Acct("Ira", "traditional_ira", "primary", TRUE),
       Acct("K401", "401k", "spouse", TRUE),
       Acct("Roth", "roth_ira", "primary", TRUE),
       Acct("Hsa", "hsa", "spouse", TRUE) >>

Event(name, amount) == [account |-> name, amount |-> amount, realized_gain |-> 0]

EffBases == {0, 2000, 5000}

EffInit ==
    /\ plan = [accounts |-> EffAccounts]
    /\ balances = [n \in AccountNames(EffAccounts) |-> 0]
    /\ cost_basis = [n \in {"Brk"} |-> 0]
    /\ roth_contribution_basis \in [{"Roth"} -> EffBases]
    /\ \E n \in AccountNames(EffAccounts), k \in 0..MaxEffUnits, k2 \in 0..MaxEffUnits, pa \in {713, 714}, sa \in {0, 800} :
         call = [events |-> IF k2 = 0 THEN << Event(n, k * EffUnit) >>
                            ELSE << Event(n, k * EffUnit), Event("Roth", k2 * EffUnit) >>,
                 owner_ages |-> [o \in {"primary", "spouse"} |-> IF o = "primary" THEN pa ELSE sa],
                 basis_before |-> roth_contribution_basis]
    /\ pc = "call"
    /\ ret = [ordinary_income |-> 0, penalty |-> 0, effects |-> <<>>]
    /\ EngineIdleButBasis

EffApply ==
    /\ pc = "call"
    /\ LET r == ApplyEvents([ordinary_income |-> 0, penalty |-> 0,
                             basis |-> roth_contribution_basis, effects |-> <<>>],
                            call.events, plan.accounts, call.owner_ages)
       IN /\ roth_contribution_basis' = r.basis
          /\ ret' = [ordinary_income |-> r.ordinary_income, penalty |-> r.penalty,
                     effects |-> r.effects]
    /\ pc' = "returned"
    /\ UNCHANGED <<plan, balances, cost_basis, call, engineVarsButBasis>>

EffNext == EffApply

SpecEffects == EffInit /\ [][EffNext]_vars

----------------------------------------------------------------------------
(* Claims about the early-withdrawal effects.                              *)

\* the penalty the rule gives one withdrawal, times ten
TenTimesPenaltyDue(type, owner_age, amount, basis) ==
    CASE type \in {"401k", "traditional_ira"} ->
             IF owner_age < 714 THEN amount ELSE 0
      [] type = "roth_ira" ->
             IF owner_age < 714 /\ amount > basis THEN amount - basis ELSE 0
      [] OTHER -> 0

\* the Roth basis each event of the call met, from the basis before the call
RECURSIVE BasisMet(_, _, _)
BasisMet(events, i, basis) ==
    IF i <= 1 THEN basis
    ELSE LET b == BasisMet(events, i - 1, basis)
             e == events[i - 1]
         IN IF e.account = "Roth" /\ e.amount > 0
            THEN (IF b > e.amount THEN b - e.amount ELSE 0)
            ELSE b

\* C8: a waterfall withdrawal from a 401k or traditional_ira is penalised
\* 10% of its amount when the owner is under 59.5 and nothing from 59.5 on;
\* a roth_ira withdrawal under 59.5 is penalised 10% of only the part above
\* the account's remaining contribution basis, which the withdrawal reduces,
\* floored at 0; a withdrawal from any other type is never penalised.
C8_EarlyWithdrawalPenalty ==
    pc = "returned" =>
        /\ Len(ret.effects) = Len(call.events)
        /\ \A i \in 1..Len(call.events) :
             LET e == call.events[i]
                 account == AccountNamed(plan.accounts, e.account)
                 met == BasisMet(call.events, i, call.basis_before["Roth"])
             IN 10 * ret.effects[i].penalty =
                    TenTimesPenaltyDue(account.type, call.owner_ages[account.owner], e.amount, met)
        /\ roth_contribution_basis["Roth"] =
               BasisMet(call.events, Len(call.events) + 1, call.basis_before["Roth"])
        /\ ret.penalty = SumSeq([i \in 1..Len(ret.effects) |-> ret.effects[i].penalty])

C8_Witness ==
    /\ pc = "returned"
    /\ \E i \in 1..Len(call.events) :
         /\ call.events[i].account = "Roth"
         /\ call.owner_ages["primary"] < 714
         /\ BasisMet(call.events, i, call.basis_before["Roth"]) > 0
         /\ call.events[i].amount > BasisMet(call.events, i, call.basis_before["Roth"])
         /\ ret.effects[i].penalty > 0
         /\ ret.effects[i].penalty * 10 < call.events[i].amount

----------------------------------------------------------------------------
(* The engine: the plans a run is given.  Every item is monthly, "fixed"   *)
(* and the accounts neither grow nor pay dividends or fees; the plan has   *)
(* no contributions, transfers, real assets, transactions, healthcare or   *)
(* Social Security.                                                        *)

MaxMonths == 3

EngStarts == { Ym(2026, 11), Ym(2026, 12) }

\* the month n - 1 months after start
MonthsAfter(start, n) ==
    LET z == start.year * 12 + (start.month - 1) + (n - 1)
    IN Ym(z \div 12, (z % 12) + 1)

\* primary's birthday: 50y, 59y6m and 75y6m old in 2026-12
EngBirthdays == { Ym(1976, 12), Ym(1967, 6), Ym(1951, 6) }

EngAccount(name, type, balance, basis) ==
    [name |-> name, type |-> type, owner |-> "primary", balance |-> balance,
     cost_basis |-> basis, allow_withdrawals |-> TRUE]

\* balances in cents of Cash, Brk (with its cost basis), Ira and Roth
EngAccounts(cash, brk, brk_basis, ira, roth) ==
    << EngAccount("Cash", "cash", cash, 0),
       EngAccount("Brk", "taxable_brokerage", brk, brk_basis),
       EngAccount("Ira", "traditional_ira", ira, 0),
       EngAccount("Roth", "roth_ira", roth, 0) >>

EngAccountSets ==
    { EngAccounts(0, 0, 0, 0, 0),
      EngAccounts(0, 0, 0, 66300, 0),
      EngAccounts(0, 0, 0, 200000 * 100, 0),
      EngAccounts(1000 * 100, 40000, 10000, 5000 * 100, 30000),
      EngAccounts(0, 0, 0, 1000 * 100, 30000) }

Item(name, amount, start_date, tax_handling, withhold_percent) ==
    [name |-> name, owner |-> "primary", amount |-> amount, frequency |-> "monthly",
     start_date |-> start_date, end_date |-> DateEnd, change_over_time |-> "fixed",
     tax_handling |-> tax_handling, withhold_percent |-> withhold_percent]

\* withhold_percent is a whole percent, -1 for None
EngIncomes ==
    { <<>>,
      << Item("Gift", 500 * 100, DateStart, "none", 0 - 1) >>,
      << Item("Bequest", 2000 * 100, Ym(2026, 12), "none", 0 - 1) >>,
      << Item("Salary", 5000 * 100, Ym(2026, 12), "withhold", 20) >> }

EngExpenses ==
    { <<>>,
      << Item("Living", 600 * 100, DateStart, "", 0 - 1) >>,
      << Item("Estate", 80000 * 100, DateStart, "", 0 - 1) >> }

EngStrategies ==
    { [order |-> <<"cash", "taxable_brokerage", "traditional_ira", "roth_ira">>,
       account_specific_order |-> <<>>, use_account_specific |-> FALSE,
       rmd_satisfied_first |-> TRUE],
      [order |-> <<>>, account_specific_order |-> <<"Roth", "Ira">>,
       use_account_specific |-> TRUE, rmd_satisfied_first |-> FALSE] }

EngRmds ==
    { [enabled |-> en, rmd_start_age |-> 73, accounts |-> <<"Ira">>,
       destination_account |-> "Cash"] : en \in BOOLEAN }

EngRothConversions ==
    { <<>>,
      << [name |-> "fill", from_account |-> "Ira", to_account |-> "Roth",
          annual_amount |-> 0 - 1, start_date |-> DateStart, end_date |-> DateEnd,
          fill_to_bracket |-> "12%"] >>,
      << [name |-> "once", from_account |-> "Ira", to_account |-> "Roth",
          annual_amount |-> 1200000 * 100, start_date |-> DateStart, end_date |-> Ym(2026, 11),
          fill_to_bracket |-> ""] >> }

\* TaxSettings as load_plan defaults them
DefaultTaxSettings ==
    [federal_effective_rate_override |-> 0 - 1,
     state_effective_rate_override |-> 0 - 1,
     capital_gains_rate_override |-> 0 - 1,
     standard_deduction_override |-> 0 - 1,
     itemized_deductions |-> [salt_cap |-> Cents(10000),
                              mortgage_interest_deductible |-> TRUE,
                              charitable_contributions |-> 0],
     niit_enabled |-> TRUE,
     amt_enabled |-> TRUE]

NewAnnual(year) ==
    [year |-> year, income |-> 0, tax_withheld |-> 0, tax_estimated_payments |-> 0,
     transfers |-> 0, other_expenses |-> 0, mortgage_interest_paid |-> 0,
     withdrawals |-> 0, realized_capital_gains |-> 0,
     taxable_ordinary_income |-> 0, qualified_dividends |-> 0,
     tax_federal |-> 0, tax_capital_gains |-> 0, tax_state |-> 0, tax_niit |-> 0,
     tax_amt |-> 0, tax_penalties |-> 0, tax_total |-> 0,
     tax_refund |-> 0, tax_payment |-> 0, net_worth_end |-> 0, insolvent |-> FALSE]

NewMonth ==
    [month_income |-> 0, month_withheld |-> 0, month_tax_estimated_payment |-> 0,
     month_transfers |-> 0, month_other_expenses |-> 0, month_mortgage_interest |-> 0,
     month_withdrawals |-> 0, month_realized_cg |-> 0, month_tax_settlement |-> 0,
     month_taxable_ordinary_income |-> 0, month_qualified_dividends |-> 0,
     insolvent |-> FALSE]

NoTaxResult ==
    [federal_income_tax |-> 0, capital_gains_tax |-> 0, niit_tax |-> 0, amt_tax |-> 0,
     state_income_tax |-> 0, early_withdrawal_penalty |-> 0, total_tax |-> 0,
     deduction_used |-> 0, taxable_ordinary_income |-> 0]

\* settlement loop locals before the loop; has_result FALSE is tax_result None
NewSettle ==
    [rounds |-> 0, estimated_state_tax |-> 0, settlement |-> 0,
     tax_result |-> NoTaxResult, has_result |-> FALSE]

\* What the month has seen: the largest `remaining` a waterfall call
\* returned, the cash balance right after the expense debit, the tax
\* computations and waterfall calls of the settlement loop, and how much of
\* the settlement the cash on hand did not cover when it was debited.
NewObs ==
    [max_remaining |-> 0, cash_after_expenses |-> 0, tax_computations |-> 0,
     waterfall_calls |-> 0, settlement_unfunded |-> 0]

EngInit ==
    /\ \E start \in EngStarts, n \in 1..MaxMonths, birthday \in EngBirthdays,
          accounts \in EngAccountSets, income \in EngIncomes, expenses \in EngExpenses,
          strategy \in EngStrategies, rmds \in EngRmds, conversions \in EngRothConversions,
          fs \in {"single", "married_filing_jointly"} :
         plan = [plan_settings |-> [plan_start |-> start, plan_end |-> MonthsAfter(start, n),
                                    inflation_rate |-> 3],
                 filing_status |-> fs,
                 people |-> [primary |-> [birthday |-> birthday, state |-> "CA"],
                             spouse |-> [present |-> FALSE, birthday |-> birthday]],
                 accounts |-> accounts, income |-> income, expenses |-> expenses,
                 withdrawal_strategy |-> strategy, rmds |-> rmds,
                 roth_conversions |-> conversions, tax_settings |-> DefaultTaxSettings]
    /\ balances = [name \in AccountNames(plan.accounts) |-> AccountNamed(plan.accounts, name).balance]
    /\ cost_basis = [name \in {a.name : a \in {b \in Range(plan.accounts) : b.type = "taxable_brokerage"}} |->
                        AccountNamed(plan.accounts, name).cost_basis]
    /\ roth_contribution_basis =
           [name \in {a.name : a \in {b \in Range(plan.accounts) : b.type = "roth_ira"}} |->
               Max(0, AccountNamed(plan.accounts, name).balance)]
    /\ prior_year_end_balances = balances
    /\ annual_by_year = EmptyMap
    /\ monthly_results = <<>>
    /\ early_withdrawal_penalties = EmptyMap
    /\ annual_fica_withheld = EmptyMap
    /\ annual_estimated_tax_paid = EmptyMap
    /\ month_pos = 1
    /\ loc = NewMonth
    /\ settle = NewSettle
    /\ obs = NewObs
    /\ call = [months |-> _iter_months(plan.plan_settings.plan_start, plan.plan_settings.plan_end)]
    /\ ret = [monthly |-> <<>>, annual |-> <<>>, insolvency_years |-> <<>>]
    /\ pc = "income"

\* the (year, month, index) being simulated, and the run's fixed names
Cur == call.months[month_pos]
cash_account == _pick_cash_account(plan.accounts)
plan_start == plan.plan_settings.plan_start
plan_end == plan.plan_settings.plan_end
inflation_rate == plan.plan_settings.inflation_rate

owner_ages_now ==
    [o \in {"primary", "spouse"} |->
        IF o = "primary"
        THEN _age_years_at_month(plan.people.primary.birthday, Cur.year, Cur.month)
        ELSE IF plan.people.spouse.present
             THEN _age_years_at_month(plan.people.spouse.birthday, Cur.year, Cur.month)
             ELSE 0]

----------------------------------------------------------------------------
(* The engine: one month of run_deterministic, step by step.               *)

\* Steps 1-4: the month's setup and income collection.  compute_fica is
\* called with a keyword (filing_status) it does not take, so the first
\* withheld income item raises TypeError out of the run.
EngIncome ==
    /\ pc = "income"
    /\ LET items == _active_income_items(plan.income, Cur, plan_start, plan_end)
           raises == \E i \in 1..Len(items) :
                        items[i].tax_handling = "withhold" /\ items[i].withhold_percent >= 0
           amounts == [i \in 1..Len(items) |->
                          IF items[i].frequency = "annual"
                          THEN _amount_for_month(items[i]) \div 12
                          ELSE _amount_for_month(items[i])]
           month_income == SumSeq(amounts)
       IN IF raises
          THEN /\ pc' = "raised"
               /\ UNCHANGED <<balances, loc, obs, annual_by_year, early_withdrawal_penalties,
                              annual_fica_withheld, annual_estimated_tax_paid>>
          ELSE /\ pc' = "conversions"
               /\ annual_by_year' = SetDefault(annual_by_year, Cur.year, NewAnnual(Cur.year))
               /\ annual_fica_withheld' = SetDefault(annual_fica_withheld, Cur.year, 0)
               /\ annual_estimated_tax_paid' = SetDefault(annual_estimated_tax_paid, Cur.year, 0)
               /\ early_withdrawal_penalties' = SetDefault(early_withdrawal_penalties, Cur.year, 0)
               /\ balances' = [balances EXCEPT ![cash_account] = @ + month_income]
               /\ loc' = [NewMonth EXCEPT !.month_income = month_income]
               /\ obs' = NewObs
    /\ UNCHANGED <<plan, cost_basis, call, ret, month_pos, monthly_results,
                   roth_contribution_basis, prior_year_end_balances, settle>>

\* The state steps 9-10 thread: st = [balances, basis, withdrawals,
\* transfers, taxable_ordinary_income] (the last three are the month's).
RmdBooked(st, r, rmd_destination) ==
    [balances |-> r.balances,
     basis |-> IF r.total_withdrawals > 0
               THEN _record_roth_basis_contribution(st.basis, rmd_destination,
                        Max(0, BalanceOf(r.balances, rmd_destination) - BalanceOf(st.balances, rmd_destination)))
               ELSE st.basis,
     withdrawals |-> st.withdrawals + r.total_withdrawals,
     transfers |-> st.transfers,
     taxable_ordinary_income |-> st.taxable_ordinary_income + r.ordinary_income]

\* an RMD pass at both places, in every month
RmdStep_Always(due, st) ==
    RmdBooked(st,
              execute_rmds(plan.rmds, plan.accounts, st.balances, prior_year_end_balances, owner_ages_now),
              IF plan.rmds.destination_account = "" THEN cash_account
              ELSE plan.rmds.destination_account)

\* One RMD pass of December (`due` says whether this is its place).
RmdStep(due, st) ==
    IF ~due THEN st
    ELSE RmdBooked(st,
                   execute_rmds(plan.rmds, plan.accounts, st.balances, prior_year_end_balances, owner_ages_now),
                   IF plan.rmds.destination_account = "" THEN cash_account
                   ELSE plan.rmds.destination_account)

RothBooked(st, r, roth_accounts) ==
    [balances |-> r.balances,
     basis |-> IF r.total_converted > 0
               THEN [name \in DOMAIN st.basis |->
                        IF name \in roth_accounts /\ BalanceOf(r.balances, name) - BalanceOf(st.balances, name) > 0
                        THEN st.basis[name] + (BalanceOf(r.balances, name) - BalanceOf(st.balances, name))
                        ELSE st.basis[name]]
               ELSE st.basis,
     withdrawals |-> st.withdrawals,
     transfers |-> st.transfers + r.total_converted,
     taxable_ordinary_income |-> st.taxable_ordinary_income + r.ordinary_income_added]

\* The Roth conversions of the month.
RothStep(st) ==
    RothBooked(st,
        execute_roth_conversions(plan.roth_conversions, st.balances,
            [current_year |-> Cur.year, current_month |-> Cur.month,
             current_index |-> Cur.index, plan_start |-> plan_start,
             plan_end |-> plan_end, filing_status |-> plan.filing_status,
             inflation_rate |-> inflation_rate,
             ytd_taxable_ordinary_income |->
                 annual_by_year[Cur.year].taxable_ordinary_income + st.taxable_ordinary_income]),
        {plan.roth_conversions[i].from_account : i \in 1..Len(plan.roth_conversions)}
            \cup {plan.roth_conversions[i].to_account : i \in 1..Len(plan.roth_conversions)})

ConversionsDone(st) ==
    /\ balances' = st.balances
    /\ roth_contribution_basis' = st.basis
    /\ loc' = [loc EXCEPT
           !.month_withdrawals = st.withdrawals,
           !.month_transfers = st.transfers,
           !.month_taxable_ordinary_income = st.taxable_ordinary_income]

\* Steps 9-10: RMDs first if the strategy says so, Roth conversions, RMDs.
EngConversions ==
    /\ pc = "conversions"
    /\ ConversionsDone(
           RmdStep(Cur.month = 12 /\ ~plan.withdrawal_strategy.rmd_satisfied_first,
               RothStep(
                   RmdStep(Cur.month = 12 /\ plan.withdrawal_strategy.rmd_satisfied_first,
                       [balances |-> balances, basis |-> roth_contribution_basis,
                        withdrawals |-> loc.month_withdrawals,
                        transfers |-> loc.month_transfers,
                        taxable_ordinary_income |-> loc.month_taxable_ordinary_income]))))
    /\ pc' = "expenses"
    /\ UNCHANGED <<plan, cost_basis, call, ret, month_pos, monthly_results, annual_by_year,
                   early_withdrawal_penalties, annual_fica_withheld, annual_estimated_tax_paid,
                   prior_year_end_balances, settle, obs>>

\* whether a waterfall call left the shortfall unfunded (remaining > 0.01)
LeftUnfunded_Never(remaining) == FALSE

LeftUnfunded(remaining) == remaining > 1

\* A waterfall call site: cover_shortfall when `needed` and the handling of
\* its events.  Returns [called, remaining, withdrawn, gains, balances,
\* cost_basis, basis, ordinary_income, penalty].
WaterfallBooked(w, e) ==
    [called |-> TRUE, remaining |-> w.remaining,
     withdrawn |-> SumSeq([i \in 1..Len(w.events) |-> w.events[i].amount]),
     gains |-> w.gains, balances |-> w.balances, cost_basis |-> w.cost_basis,
     basis |-> e.basis, ordinary_income |-> e.ordinary_income, penalty |-> e.penalty]

WaterfallEvents(w, basis) ==
    WaterfallBooked(w, ApplyEvents([ordinary_income |-> 0, penalty |-> 0, basis |-> basis, effects |-> <<>>],
                                   w.events, plan.accounts, owner_ages_now))

Waterfall(needed, shortfall, bals, cb, basis) ==
    IF ~needed
    THEN [called |-> FALSE, remaining |-> 0, withdrawn |-> 0, gains |-> 0, balances |-> bals,
          cost_basis |-> cb, basis |-> basis, ordinary_income |-> 0, penalty |-> 0]
    ELSE WaterfallEvents(cover_shortfall(shortfall, bals, plan.accounts, plan.withdrawal_strategy,
                                         cash_account, cb, owner_ages_now),
                         basis)

\* Step 17: the month's non-healthcare expenses.
MonthOtherExpenses(items) == SumSeq([i \in 1..Len(items) |-> _amount_for_month(items[i])])

\* Steps 18-19 once the waterfall, if needed, has returned w.
ExpensesPaid(total_expenses, w, cash_after) ==
    /\ balances' = [w.balances EXCEPT ![cash_account] = cash_after]
    /\ cost_basis' = w.cost_basis
    /\ roth_contribution_basis' = w.basis
    /\ early_withdrawal_penalties' =
           [early_withdrawal_penalties EXCEPT ![Cur.year] = @ + w.penalty]
    /\ loc' = [loc EXCEPT
           !.month_other_expenses = @ + total_expenses,
           !.month_withdrawals = @ + w.withdrawn,
           !.month_realized_cg = @ + w.gains,
           !.month_taxable_ordinary_income = @ + w.ordinary_income,
           !.insolvent = @ \/ (w.called /\ LeftUnfunded(w.remaining)) \/ cash_after < 0 - 1]
    /\ obs' = [obs EXCEPT !.max_remaining = Max(@, w.remaining),
                          !.cash_after_expenses = cash_after]

ExpensesFunded(total_expenses, w) ==
    ExpensesPaid(total_expenses, w, w.balances[cash_account] - total_expenses)

ExpensesDue(total_expenses) ==
    ExpensesFunded(total_expenses,
                   Waterfall(balances[cash_account] < total_expenses,
                             total_expenses - balances[cash_account],
                             balances, cost_basis, roth_contribution_basis))

\* Steps 17-19: expenses, the waterfall for the shortfall, the debit.
EngExpensesStep ==
    /\ pc = "expenses"
    /\ ExpensesDue(MonthOtherExpenses(_active_expense_items(plan.expenses, Cur, plan_start, plan_end)))
    /\ pc' = "estimated_tax"
    /\ UNCHANGED <<plan, call, ret, month_pos, monthly_results, annual_by_year,
                   annual_fica_withheld, annual_estimated_tax_paid,
                   prior_year_end_balances, settle>>

\* the itemized deductions of a tax computation
Itemized(state_tax, mortgage_interest) ==
    LET d == plan.tax_settings.itemized_deductions
    IN Min(d.salt_cap, state_tax) + Max(0, d.charitable_contributions)
       + (IF d.mortgage_interest_deductible THEN Max(0, mortgage_interest) ELSE 0)

YearIncomeSummary(year, ordinary_income, capital_gains, qualified_dividends, itemized, penalty) ==
    [year |-> year, filing_status |-> plan.filing_status,
     state |-> IF plan.people.primary.state = "" THEN "CA" ELSE plan.people.primary.state,
     ordinary_income |-> ordinary_income, capital_gains |-> capital_gains,
     qualified_dividends |-> qualified_dividends, investment_income |-> 0,
     itemized_deductions |-> itemized, early_withdrawal_penalty |-> penalty]

\* x * (12.0 / max(1, month))
Annualized(x) == MulDiv(x, 12, Max(1, Cur.month))

\* one pass of the two-pass projection of the year's tax
ProjectedTax(annual, projected_state_tax) ==
    compute_total_tax(
        YearIncomeSummary(Cur.year,
            Annualized(annual.taxable_ordinary_income + loc.month_taxable_ordinary_income),
            Annualized(annual.realized_capital_gains + loc.month_realized_cg),
            Annualized(annual.qualified_dividends + loc.month_qualified_dividends),
            Itemized(projected_state_tax,
                     Annualized(annual.mortgage_interest_paid + loc.month_mortgage_interest)),
            Annualized(early_withdrawal_penalties[Cur.year])),
        plan.tax_settings, inflation_rate)

ProjectedSettlement(annual) ==
    Max(0, (ProjectedTax(annual, Max(0, ProjectedTax(annual, Max(0, annual.tax_state)).state_income_tax)).total_tax
            + Annualized(annual_fica_withheld[Cur.year]))
           - Annualized(annual.tax_withheld + loc.month_withheld))

PaymentDue(annual) ==
    Max(0, MulDiv(ProjectedSettlement(annual), Cur.month, 12) - annual_estimated_tax_paid[Cur.year])

\* The installment once the waterfall, if needed, has returned w.
EstimatedPaid(w, actual_payment) ==
    /\ balances' = [w.balances EXCEPT ![cash_account] = @ - actual_payment]
    /\ cost_basis' = w.cost_basis
    /\ roth_contribution_basis' = w.basis
    /\ early_withdrawal_penalties' =
           [early_withdrawal_penalties EXCEPT ![Cur.year] = @ + w.penalty]
    /\ annual_estimated_tax_paid' =
           [annual_estimated_tax_paid EXCEPT ![Cur.year] = @ + actual_payment]
    /\ loc' = [loc EXCEPT
           !.month_withdrawals = @ + w.withdrawn,
           !.month_realized_cg = @ + w.gains,
           !.month_taxable_ordinary_income = @ + w.ordinary_income,
           !.month_tax_estimated_payment = @ + actual_payment,
           !.insolvent = @ \/ (w.called /\ LeftUnfunded(w.remaining))]
    /\ obs' = [obs EXCEPT !.max_remaining = Max(@, w.remaining)]

\* the installment paid whatever the cash on hand
EstimatedFunded_Uncapped(payment_due, w) == EstimatedPaid(w, payment_due)

\* actual_payment = min(payment_due, max(0.0, balances[cash_account]))
EstimatedFunded(payment_due, w) ==
    EstimatedPaid(w, IF payment_due > 0
                     THEN Max(0, Min(payment_due, Max(0, w.balances[cash_account])))
                     ELSE 0)

EstimatedDue(payment_due) ==
    EstimatedFunded(payment_due,
                    Waterfall(payment_due > 0 /\ balances[cash_account] < payment_due,
                              payment_due - balances[cash_account],
                              balances, cost_basis, roth_contribution_basis))

\* Step 20: the estimated-tax installment on the annualized year to date.
EngEstimatedTax ==
    /\ pc = "estimated_tax"
    /\ EstimatedDue(PaymentDue(annual_by_year[Cur.year]))
    /\ pc' = "rollup"
    /\ UNCHANGED <<plan, call, ret, month_pos, monthly_results, annual_by_year,
                   annual_fica_withheld, prior_year_end_balances, settle>>

\* Step 22: the month's totals added to the year's.
RollupMonth(annual, l) ==
    [annual EXCEPT
        !.income = @ + l.month_income,
        !.tax_withheld = @ + l.month_withheld,
        !.tax_estimated_payments = @ + l.month_tax_estimated_payment,
        !.transfers = @ + l.month_transfers,
        !.other_expenses = @ + l.month_other_expenses,
        !.mortgage_interest_paid = @ + l.month_mortgage_interest,
        !.withdrawals = @ + l.month_withdrawals,
        !.realized_capital_gains = @ + l.month_realized_cg,
        !.taxable_ordinary_income = @ + l.month_taxable_ordinary_income,
        !.qualified_dividends = @ + l.month_qualified_dividends]

\* the settlement run from November on
SettlementMonth_FromNovember(month) == month >= 11

\* `if month == 12:`
SettlementMonth(month) == month = 12

\* The rollup; in December it also readies the settlement loop.
EngRollup ==
    /\ pc = "rollup"
    /\ LET rolled == RollupMonth(annual_by_year[Cur.year], loc)
       IN IF SettlementMonth(Cur.month)
          THEN /\ annual_by_year' = [annual_by_year EXCEPT ![Cur.year] =
                                        [rolled EXCEPT !.tax_refund = 0, !.tax_payment = 0]]
               /\ settle' = [NewSettle EXCEPT !.estimated_state_tax = Max(0, rolled.tax_state)]
               /\ pc' = "settlement"
          ELSE /\ annual_by_year' = [annual_by_year EXCEPT ![Cur.year] = rolled]
               /\ settle' = settle
               /\ pc' = "close"
    /\ UNCHANGED <<plan, balances, cost_basis, call, ret, month_pos, loc, monthly_results,
                   early_withdrawal_penalties, annual_fica_withheld, annual_estimated_tax_paid,
                   roth_contribution_basis, prior_year_end_balances, obs>>

\* `for _ in range(8)`
SettlementRounds_OneMore == 8 + 1

SettlementRounds == 8

\* what a settlement-funding waterfall adds to the year's totals
FundingRollup_WithoutWithdrawals(annual, w) ==
    [annual EXCEPT
        !.realized_capital_gains = @ + w.gains,
        !.taxable_ordinary_income = @ + w.ordinary_income]

FundingRollup(annual, w) ==
    [annual EXCEPT
        !.withdrawals = @ + w.withdrawn,
        !.realized_capital_gains = @ + w.gains,
        !.taxable_ordinary_income = @ + w.ordinary_income]

\* The tax of the year's totals as a settlement round computes it.
SettlementTax(annual) ==
    compute_total_tax(
        YearIncomeSummary(Cur.year, annual.taxable_ordinary_income,
            annual.realized_capital_gains, annual.qualified_dividends,
            Itemized(settle.estimated_state_tax, annual.mortgage_interest_paid),
            early_withdrawal_penalties[Cur.year]),
        plan.tax_settings, inflation_rate)

\* The round once the waterfall, if needed, has returned w.
RoundDone(tax_result, settlement, covered, w) ==
    /\ settle' = [rounds |-> settle.rounds + 1,
                  estimated_state_tax |-> Max(0, tax_result.state_income_tax),
                  settlement |-> settlement, tax_result |-> tax_result,
                  has_result |-> TRUE]
    /\ balances' = w.balances
    /\ cost_basis' = w.cost_basis
    /\ roth_contribution_basis' = w.basis
    /\ early_withdrawal_penalties' =
           [early_withdrawal_penalties EXCEPT ![Cur.year] = @ + w.penalty]
    /\ annual_by_year' = [annual_by_year EXCEPT ![Cur.year] = FundingRollup(@, w)]
    /\ loc' = [loc EXCEPT
           !.month_withdrawals = @ + w.withdrawn,
           !.month_realized_cg = @ + w.gains,
           !.month_taxable_ordinary_income = @ + w.ordinary_income,
           !.insolvent = @ \/ (w.called /\ LeftUnfunded(w.remaining))]
    /\ obs' = [obs EXCEPT !.max_remaining = Max(@, w.remaining),
                          !.tax_computations = @ + 1,
                          !.waterfall_calls = @ + (IF w.called THEN 1 ELSE 0)]
    /\ pc' = IF \/ covered
                \/ w.withdrawn <= 0
                \/ (w.called /\ LeftUnfunded(w.remaining))
                \/ settle.rounds + 1 >= SettlementRounds
             THEN "settled" ELSE "settlement"

RoundFunding(tax_result, settlement, covered) ==
    RoundDone(tax_result, settlement, covered,
              Waterfall(~covered, settlement - balances[cash_account],
                        balances, cost_basis, roth_contribution_basis))

RoundSettlement(tax_result, settlement) ==
    RoundFunding(tax_result, settlement,
                 settlement <= 0 \/ balances[cash_account] >= settlement)

RoundTax(annual, tax_result) ==
    RoundSettlement(tax_result,
                    (tax_result.total_tax + annual_fica_withheld[Cur.year])
                    - annual.tax_withheld - annual.tax_estimated_payments)

\* One round of the December settlement loop: recompute the year's tax,
\* stop if nothing is owed or cash covers it, else fund it by the waterfall.
EngSettlementRound ==
    /\ pc = "settlement"
    /\ settle.rounds < SettlementRounds
    /\ RoundTax(annual_by_year[Cur.year], SettlementTax(annual_by_year[Cur.year]))
    /\ UNCHANGED <<plan, call, ret, month_pos, monthly_results, annual_fica_withheld,
                   annual_estimated_tax_paid, prior_year_end_balances>>

\* After the loop: the year's tax is recorded from the last tax_result and
\* the settlement is paid from, or the refund added to, cash.  (The loop
\* runs at least once, so tax_result is never None here.)
EngSettled ==
    /\ pc = "settled"
    /\ settle.has_result
    /\ LET year == Cur.year
           t == settle.tax_result
           settlement == settle.settlement
           cash_after == balances[cash_account] - settlement
           paid == [balances EXCEPT ![cash_account] = cash_after]
       IN /\ annual_by_year' = [annual_by_year EXCEPT ![year] =
                 [@ EXCEPT !.tax_federal = t.federal_income_tax,
                           !.tax_capital_gains = t.capital_gains_tax,
                           !.tax_state = t.state_income_tax,
                           !.tax_niit = t.niit_tax,
                           !.tax_amt = t.amt_tax,
                           !.tax_penalties = t.early_withdrawal_penalty,
                           !.tax_total = t.total_tax + annual_fica_withheld[year],
                           !.tax_payment = IF settlement > 0 THEN settlement ELSE 0,
                           !.tax_refund = IF settlement > 0 THEN 0 ELSE 0 - settlement]]
          /\ balances' = paid
          /\ loc' = [loc EXCEPT !.month_tax_settlement = settlement]
          /\ prior_year_end_balances' = [name \in DOMAIN paid |-> Max(0, paid[name])]
          /\ obs' = [obs EXCEPT !.settlement_unfunded =
                         IF settlement > 0
                         THEN Max(0, settlement - Max(0, balances[cash_account]))
                         ELSE 0]
    /\ pc' = "close"
    /\ UNCHANGED <<plan, cost_basis, call, ret, month_pos, monthly_results,
                   early_withdrawal_penalties, annual_fica_withheld, annual_estimated_tax_paid,
                   roth_contribution_basis, settle>>

\* the year's flag follows the latest month only
AnnualInsolvent_Latest(annual_insolvent, insolvent) == insolvent

\* annual.insolvent = annual.insolvent or insolvent
AnnualInsolvent(annual_insolvent, insolvent) == annual_insolvent \/ insolvent

\* The month's close: net worth, the last insolvency test, the MonthResult.
EngCloseMonth ==
    /\ pc = "close"
    /\ LET year == Cur.year
           net_worth_end == SumSeq([i \in 1..Len(plan.accounts) |-> Max(0, balances[plan.accounts[i].name])])
           insolvent == loc.insolvent \/ balances[cash_account] < 0 - 1
       IN /\ annual_by_year' = [annual_by_year EXCEPT ![year] =
                 [@ EXCEPT !.net_worth_end = net_worth_end,
                           !.insolvent = AnnualInsolvent(@, insolvent)]]
          /\ loc' = [loc EXCEPT !.insolvent = insolvent]
          /\ monthly_results' = Append(monthly_results,
                 [year |-> year, month |-> Cur.month, income |-> loc.month_income,
                  tax_withheld |-> loc.month_withheld,
                  tax_estimated_payment |-> loc.month_tax_estimated_payment,
                  transfers |-> loc.month_transfers,
                  other_expenses |-> loc.month_other_expenses,
                  withdrawals |-> loc.month_withdrawals,
                  realized_capital_gains |-> loc.month_realized_cg,
                  tax_settlement |-> loc.month_tax_settlement,
                  net_worth_end |-> net_worth_end,
                  insolvent |-> insolvent])
    /\ IF month_pos < Len(call.months)
       THEN month_pos' = month_pos + 1 /\ pc' = "income"
       ELSE month_pos' = month_pos /\ pc' = "return"
    /\ UNCHANGED <<plan, balances, cost_basis, call, ret, early_withdrawal_penalties,
                   annual_fica_withheld, annual_estimated_tax_paid, roth_contribution_basis,
                   prior_year_end_balances, settle, obs>>

\* sorted(keys)
RECURSIVE SortedSeq(_)
SortedSeq(keys) ==
    IF keys = {} THEN <<>>
    ELSE LET least == CHOOSE k \in keys : \A other \in keys : k <= other
         IN <<least>> \o SortedSeq(keys \ {least})

\* The EngineResult is assembled and returned.
EngReturn ==
    /\ pc = "return"
    /\ LET years == SortedSeq(DOMAIN annual_by_year)
           annual_results == [i \in 1..Len(years) |-> annual_by_year[years[i]]]
       IN ret' = [monthly |-> monthly_results,
                  annual |-> annual_results,
                  insolvency_years |-> SelectSeq(years, LAMBDA y : annual_by_year[y].insolvent)]
    /\ pc' = "done"
    /\ UNCHANGED <<plan, balances, cost_basis, call, engineVars>>

Next ==
    \/ EngIncome
    \/ EngConversions
    \/ EngExpensesStep
    \/ EngEstimatedTax
    \/ EngRollup
    \/ EngSettlementRound
    \/ EngSettled
    \/ EngCloseMonth
    \/ EngReturn

Spec == EngInit /\ [][Next]_vars

----------------------------------------------------------------------------
(* Claims about run_deterministic.                                         *)

\* a month boundary: the last MonthResult is appended and the next month
\* has not begun
AtMonthBoundary == pc \in {"income", "return", "done"} /\ monthly_results # <<>>

LastMonth == monthly_results[Len(monthly_results)]

\* the sum of a field over the MonthResults of one year
YearSum(months, year, field) ==
    SumSeq([i \in 1..Len(months) |-> IF months[i].year = year THEN months[i][field] ELSE 0])

Near(a, b) == a - b <= 1 /\ b - a <= 1

\* C3: a run on a plan that has a cash account never raises; it returns one
\* MonthResult for every month from plan_start through plan_end, in order,
\* and one AnnualResult for every calendar year covered.
C3_RunNeverRaises ==
    /\ pc # "raised"
    /\ pc = "done" =>
         LET first == plan_start.year * 12 + plan_start.month
             last == plan_end.year * 12 + plan_end.month
         IN /\ Len(ret.monthly) = last - first + 1
            /\ \A i \in 1..Len(ret.monthly) :
                 /\ ret.monthly[i].month \in 1..12
                 /\ ret.monthly[i].year * 12 + ret.monthly[i].month = first + i - 1
            /\ {ret.annual[i].year : i \in 1..Len(ret.annual)} =
                   {ret.monthly[i].year : i \in 1..Len(ret.monthly)}
            /\ \A i \in 1..Len(ret.annual), j \in 1..Len(ret.annual) :
                 i < j => ret.annual[i].year < ret.annual[j].year

\* C4: for every year, the year's MonthResults sum to the AnnualResult in
\* income, in tax_withheld and in withdrawals, the withdrawals made inside
\* the December settlement loop included.
C4_AnnualRollupMatchesMonths ==
    /\ pc \in {"income", "return"} =>
         \A y \in DOMAIN annual_by_year : \A f \in {"income", "tax_withheld", "withdrawals"} :
             YearSum(monthly_results, y, f) = annual_by_year[y][f]
    /\ pc = "done" =>
         \A i \in 1..Len(ret.annual) : \A f \in {"income", "tax_withheld", "withdrawals"} :
             YearSum(ret.monthly, ret.annual[i].year, f) = ret.annual[i][f]

C4_Witness ==
    /\ pc = "done"
    /\ Cur.month = 12
    /\ obs.waterfall_calls >= 2
    /\ \E i \in 1..Len(ret.annual) :
         /\ ret.annual[i].income > 0
         /\ ret.annual[i].withdrawals > ret.monthly[Len(ret.monthly)].other_expenses

\* C5: a MonthResult is flagged insolvent exactly when, in that month, a
\* waterfall call (for expenses, the estimated-tax installment or the
\* December settlement) left more than 0.01 unfunded, or cash was below
\* -0.01 after the expense debit or at the month's close.
C5_InsolventIffUnfundedOrNegativeCash ==
    AtMonthBoundary =>
        (LastMonth.insolvent <=>
            \/ obs.max_remaining > 1
            \/ obs.cash_after_expenses < 0 - 1
            \/ balances[cash_account] < 0 - 1)

C5_Witness ==
    /\ AtMonthBoundary
    /\ LastMonth.insolvent
    /\ obs.max_remaining > 1
    /\ obs.cash_after_expenses >= 0
    /\ LastMonth.tax_estimated_payment > 0

\* C6: the December settlement loop computes the tax at most 8 times and
\* calls the waterfall at most 8 times, always leaves (a round is due only
\* while fewer than 8 are done), and a settlement that cash fell short of by
\* more than 0.01 ends the month flagged insolvent.
C6_SettlementLoopBounded ==
    /\ obs.tax_computations <= 8
    /\ obs.waterfall_calls <= 8
    /\ pc = "settlement" => settle.rounds < 8
    /\ (AtMonthBoundary /\ LastMonth.month = 12 /\ obs.settlement_unfunded > 1) => LastMonth.insolvent

C6_Witness ==
    /\ pc = "settled"
    /\ obs.tax_computations = 8
    /\ obs.waterfall_calls = 8
    /\ ~loc.insolvent

\* C7: after a December close the recorded federal, capital-gains, state,
\* NIIT, AMT and penalty amounts, and tax_total less the year's FICA, are
\* what the tax calculator gives for the year's final taxable ordinary
\* income, realized gains, qualified dividends and penalties.
C7_RecordedTaxIsTaxOfFinalTotals ==
    (AtMonthBoundary /\ LastMonth.month = 12) =>
        LET y == LastMonth.year
            a == annual_by_year[y]
            t == compute_total_tax(
                     YearIncomeSummary(y, a.taxable_ordinary_income, a.realized_capital_gains,
                         a.qualified_dividends, Itemized(a.tax_state, a.mortgage_interest_paid),
                         early_withdrawal_penalties[y]),
                     plan.tax_settings, inflation_rate)
        IN /\ Near(a.tax_federal, t.federal_income_tax)
           /\ Near(a.tax_capital_gains, t.capital_gains_tax)
           /\ Near(a.tax_state, t.state_income_tax)
           /\ Near(a.tax_niit, t.niit_tax)
           /\ Near(a.tax_amt, t.amt_tax)
           /\ Near(a.tax_penalties, t.early_withdrawal_penalty)
           /\ Near(a.tax_total - annual_fica_withheld[y], t.total_tax)

----------------------------------------------------------------------------
(* The simulation orchestrator: run_simulation called again and again on   *)
(* one Plan object.  Returns are whole percent.  A scenario is recorded by *)
(* the return path run_deterministic is given: the engine's result is a    *)
(* function of the Plan and that path, and no step of the engine above     *)
(* changes the Plan.                                                       *)

\* None, for an integer argument
NoOverride == 0 - 1

\* the (stock, bond) path of a run without overrides
NoPath == <<>>

SimModes == {"deterministic", "monte_carlo", "historical"}

\* the years of HISTORICAL_ANNUAL_RETURNS
HISTORICAL_YEARS == 1926..2024

_plan_years(p) == [i \in 1..(p.end_year - p.start_year + 1) |-> p.start_year + i - 1]

_clamp_annual_return(value) == Max(0 - 95, value)

\* random.Random(seed): the k-th gauss() draw, a fixed function of the seed
Gauss(seed, k) == ((seed * 7 + k * 3) % 5) - 2

\* one path per simulation, two draws per plan year (correlation 0)
_monte_carlo_paths(p, seed) ==
    LET mc == p.simulation_settings.monte_carlo
        years == _plan_years(p)
        n == Len(years)
    IN [s \in 1..Max(1, mc.num_simulations) |->
           [y \in 1..n |->
               [year |-> years[y],
                stock |-> _clamp_annual_return(mc.stock_mean_return
                              + mc.stock_std_dev * Gauss(seed, ((s - 1) * n + (y - 1)) * 2 + 1)),
                bond |-> _clamp_annual_return(mc.bond_mean_return
                              + mc.bond_std_dev * Gauss(seed, ((s - 1) * n + (y - 1)) * 2 + 2))]]]

\* one path per rolling start (or one path); a path names, for each plan
\* year, the historical year whose returns it takes
_historical_paths(p) ==
    LET hist == p.simulation_settings.historical
        years == _plan_years(p)
        available == {y \in HISTORICAL_YEARS : hist.start_year <= y /\ y <= hist.end_year}
        first == CHOOSE y \in available : \A z \in available : y <= z
        count == Cardinality(available)
        starts == IF hist.use_rolling_periods THEN count - Len(years) + 1 ELSE 1
    IN [s \in 1..starts |->
           [y \in 1..Len(years) |->
               [year |-> years[y],
                hist_year |-> first + Min((s - 1) + (y - 1), count - 1)]]]

\* _historical_paths raises ValueError
HistoricalRaises(p) ==
    LET hist == p.simulation_settings.historical
        count == Cardinality({y \in HISTORICAL_YEARS : hist.start_year <= y /\ y <= hist.end_year})
    IN count = 0 \/ (hist.use_rolling_periods /\ count < Len(_plan_years(p)))

\* mode_override or plan.simulation_settings.mode
SimMode(p, mode_override) ==
    IF mode_override # "" THEN mode_override ELSE p.simulation_settings.mode

\* the Plan after run_simulation: the run-count override is stored in it
PlanAfterSimulation(p, mode_override, runs_override) ==
    IF SimMode(p, mode_override) = "monte_carlo" /\ runs_override # NoOverride
    THEN [p EXCEPT !.simulation_settings.monte_carlo.num_simulations = runs_override]
    ELSE p

SimulationResult(mode, seed, paths) ==
    [mode |-> mode, seed |-> seed, scenario_count |-> Len(paths), scenarios |-> paths]

\* what run_simulation returns ("raised" for its ValueErrors); seed is the
\* seed given, or the one drawn when none was
run_simulation(p, mode_override, runs_override, seed) ==
    LET mode == SimMode(p, mode_override)
        q == PlanAfterSimulation(p, mode_override, runs_override)
    IN CASE mode = "deterministic" -> SimulationResult(mode, NoOverride, <<NoPath>>)
         [] mode = "monte_carlo" -> SimulationResult(mode, seed, _monte_carlo_paths(q, seed))
         [] mode = "historical" ->
                IF HistoricalRaises(q) THEN [mode |-> "raised"]
                ELSE SimulationResult(mode, seed, _historical_paths(q))
         [] OTHER -> [mode |-> "raised"]

MaxRuns == 3
MaxSimCalls == 3
SimSeeds == {123, 124}

SimPlans ==
    {[start_year |-> 2026, end_year |-> 2027,
      simulation_settings |->
          [mode |-> mode,
           monte_carlo |-> [num_simulations |-> n, stock_mean_return |-> 10, stock_std_dev |-> 15,
                            bond_mean_return |-> 4, bond_std_dev |-> 6, correlation |-> 0],
           historical |-> [start_year |-> 2020, end_year |-> last, use_rolling_periods |-> rolling]]] :
        mode \in SimModes, n \in 1..MaxRuns, last \in {2020, 2023}, rolling \in BOOLEAN}

SimInit ==
    /\ plan \in SimPlans
    /\ call = [loaded |-> plan, calls |-> 0]
    /\ ret = [result |-> [mode |-> "none"], isolated |-> [mode |-> "none"]]
    /\ pc = "idle"
    /\ balances = EmptyMap
    /\ cost_basis = EmptyMap
    /\ EngineIdle

\* run_simulation(plan, mode_override, runs_override, seed) on the shared
\* Plan; `isolated` is what the same call returns on the Plan as loaded.
SimRunSimulation ==
    /\ call.calls < MaxSimCalls
    /\ \E mode_override \in SimModes \cup {""}, runs_override \in {NoOverride} \cup 0..MaxRuns, seed \in SimSeeds \cup {NoOverride} :
         \E drawn \in (IF seed = NoOverride THEN SimSeeds ELSE {seed}) :
           /\ ret' = [result |-> run_simulation(plan, mode_override, runs_override, drawn),
                      isolated |-> run_simulation(call.loaded, mode_override, runs_override, drawn)]
           /\ plan' = PlanAfterSimulation(plan, mode_override, runs_override)
    /\ call' = [call EXCEPT !.calls = @ + 1]
    /\ pc' = "simulated"
    /\ UNCHANGED <<balances, cost_basis, engineVars>>

\* run_deterministic(plan) called directly: the Plan is only read.
SimRunDeterministic ==
    /\ call.calls < MaxSimCalls
    /\ ret' = [result |-> SimulationResult("engine", NoOverride, <<NoPath>>),
               isolated |-> SimulationResult("engine", NoOverride, <<NoPath>>)]
    /\ call' = [call EXCEPT !.calls = @ + 1]
    /\ pc' = "ran"
    /\ UNCHANGED <<plan, balances, cost_basis, engineVars>>

SimNext == SimRunSimulation \/ SimRunDeterministic

SpecSim == SimInit /\ [][SimNext]_vars

\* C11: runs share no state: whatever runs were made on the Plan before, a
\* run returns what it returns on the Plan as loaded, and the Plan is left
\* as it was loaded.
C11_RunsShareNoState ==
    /\ ret.result = ret.isolated
    /\ plan = call.loaded

----------------------------------------------------------------------------
(* Social Security.  A PIA is a whole number of hundreds of dollars and a  *)
(* COLA a whole percent.  A benefit is the exact rational                  *)
(* num / (7200 * 100^years): the claiming adjustment is a multiple of      *)
(* 1/3600, the spousal half doubles the denominator, and each year after   *)
(* the claim multiplies by (100 + cola) / 100.                             *)

RECURSIVE Pow(_, _)
Pow(b, n) == IF n = 0 THEN 1 ELSE b * Pow(b, n - 1)

_claim_months(item) == item.claiming_age_years * 12 + item.claiming_age_months

_fra_months(item) == item.fra_age_years * 12 + item.fra_age_months

\* the COLA in percent; cola_rate 0 stands for None as well (`or 0.0`)
_cola_rate(item, inflation_pct) ==
    CASE item.cola_assumption = "fixed" -> item.cola_rate
      [] item.cola_assumption = "match_inflation" -> inflation_pct
      [] item.cola_assumption = "inflation_plus" -> inflation_pct + item.cola_rate
      [] item.cola_assumption = "inflation_minus" -> inflation_pct - item.cola_rate
      [] OTHER -> 0

\* the claiming adjustment times 3600: 5/900 = 20/3600 a month for the first
\* 36 early months, 5/1200 = 15/3600 beyond, 2/300 = 24/3600 a month late
_claiming_adjustment(item) ==
    LET diff == _claim_months(item) - _fra_months(item)
    IN IF diff = 0 THEN 3600
       ELSE IF diff < 0
            THEN Max(0, 3600 - (Min(36, 0 - diff) * 20 + Max(0, (0 - diff) - 36) * 15))
            ELSE 3600 + diff * 24

\* times 3600
_base_monthly_benefit(item) == Max(0, item.pia_at_fra * _claiming_adjustment(item))

\* a benefit paid before the claiming age
NoBenefit_Paid == [num |-> 1, years |-> 0]

NoBenefit == [num |-> 0, years |-> 0]

\* age_m is the owner's age in whole months (int(age_years * 12.0))
_owner_monthly_benefit(item, age_m, inflation_pct) ==
    IF age_m < _claim_months(item) THEN NoBenefit
    ELSE LET years_after_claim == Max(0, (age_m - _claim_months(item)) \div 12)
         IN [num |-> 2 * _base_monthly_benefit(item)
                       * Pow(100 + _cola_rate(item, inflation_pct), years_after_claim),
             years |-> years_after_claim]

\* the top-up taken with the other owner's claiming adjustment
_spousal_monthly_benefit_OtherAdjustment(owner, spouse, age_m, inflation_pct) ==
    IF age_m < _claim_months(owner) THEN NoBenefit
    ELSE LET years_after_claim == Max(0, (age_m - _claim_months(owner)) \div 12)
         IN [num |-> Max(0, Max(0, spouse.pia_at_fra) * _claiming_adjustment(spouse)
                            * Pow(100 + _cola_rate(owner, inflation_pct), years_after_claim)),
             years |-> years_after_claim]

_spousal_monthly_benefit(owner, spouse, age_m, inflation_pct) ==
    IF age_m < _claim_months(owner) THEN NoBenefit
    ELSE LET years_after_claim == Max(0, (age_m - _claim_months(owner)) \div 12)
         IN [num |-> Max(0, Max(0, spouse.pia_at_fra) * _claiming_adjustment(owner)
                            * Pow(100 + _cola_rate(owner, inflation_pct), years_after_claim)),
             years |-> years_after_claim]

\* max(a, b) of two benefits of one owner in one month (the same years)
MaxBenefit(a, b) == IF a.num >= b.num THEN a ELSE b

\* by_owner = {item.owner: item}: the last entry of an owner
ByOwner(entries, owner) ==
    LET idx == {i \in 1..Len(entries) : entries[i].owner = owner}
    IN entries[CHOOSE i \in idx : \A j \in idx : j <= i]

SsOwners(entries) == {entries[i].owner : i \in 1..Len(entries)}

AgeMonthsOf(owner_ages, owner) ==
    IF owner \in DOMAIN owner_ages THEN owner_ages[owner] ELSE 0

\* The by-owner benefits (the total is their sum).
monthly_social_security_income(entries, owner_ages, inflation_pct) ==
    LET owners == SsOwners(entries)
        own == [o \in owners |->
                   _owner_monthly_benefit(ByOwner(entries, o), AgeMonthsOf(owner_ages, o), inflation_pct)]
        other(o) == IF o = "primary" THEN "spouse" ELSE "primary"
    IN IF {"primary", "spouse"} \subseteq owners
       THEN [o \in owners |->
                IF o \in {"primary", "spouse"}
                   /\ 2 * ByOwner(entries, o).pia_at_fra < ByOwner(entries, other(o)).pia_at_fra
                THEN MaxBenefit(own[o],
                         _spousal_monthly_benefit(ByOwner(entries, o), ByOwner(entries, other(o)),
                                                  AgeMonthsOf(owner_ages, o), inflation_pct))
                ELSE own[o]]
       ELSE own

MaxSsMonths == 3

SsEntry(owner, pia, claim, cola) ==
    [owner |-> owner, pia_at_fra |-> pia, fra_age_years |-> 67, fra_age_months |-> 0,
     claiming_age_years |-> claim[1], claiming_age_months |-> claim[2],
     cola_assumption |-> cola[1], cola_rate |-> cola[2]]

\* PIAs 0, 500, 1,000 and 1,600
SsPias == {0, 5, 10, 16}

SsClaims == {<<48, 0>>, <<48, 1>>, <<62, 0>>, <<67, 0>>, <<70, 0>>}

SsColas == {<<"fixed", 0>>, <<"match_inflation", 0>>, <<"inflation_minus", 103>>}

SsEntryLists ==
    {<<SsEntry("primary", pia, claim, cola)>> : pia \in SsPias, claim \in SsClaims, cola \in SsColas}
    \cup {<<SsEntry("primary", pia, claim, cola), SsEntry("spouse", pia2, claim2, cola2)>> :
            pia \in SsPias, claim \in SsClaims, cola \in SsColas,
            pia2 \in SsPias, claim2 \in {<<62, 0>>, <<67, 0>>}, cola2 \in {<<"fixed", 0>>, <<"fixed", 2>>}}

\* first month of the sweep, relative to the owner's claiming month
SsOffsets == {0 - 2, 10, 22}

SsInit ==
    /\ \E entries \in SsEntryLists :
         /\ plan = [social_security |-> entries, inflation_rate |-> 3]
         /\ \E off \in [SsOwners(entries) -> SsOffsets] :
              call = [owner_ages |-> [o \in SsOwners(entries) |->
                                         _claim_months(ByOwner(entries, o)) + off[o]],
                      months |-> 0]
    /\ ret = EmptyMap
    /\ pc = "month"
    /\ balances = EmptyMap
    /\ cost_basis = EmptyMap
    /\ EngineIdle

\* The benefit of the month is computed for the owners' ages that month.
SsPost ==
    /\ pc = "month"
    /\ ret' = [by_owner |-> monthly_social_security_income(plan.social_security, call.owner_ages,
                                                           plan.inflation_rate),
               owner_ages |-> call.owner_ages]
    /\ pc' = "posted"
    /\ UNCHANGED <<plan, balances, cost_basis, call, engineVars>>

\* The next month: every owner is a month older.
SsNextMonth ==
    /\ pc = "posted"
    /\ call.months < MaxSsMonths
    /\ call' = [owner_ages |-> [o \in DOMAIN call.owner_ages |-> call.owner_ages[o] + 1],
                months |-> call.months + 1]
    /\ pc' = "month"
    /\ UNCHANGED <<plan, balances, cost_basis, ret, engineVars>>

SsNext == SsPost \/ SsNextMonth

SpecSocialSecurity == SsInit /\ [][SsNext]_vars

----------------------------------------------------------------------------
(* Claims about Social Security.                                           *)

SsPosted == pc = "posted"

SsItem(o) == ByOwner(plan.social_security, o)

SsClaimed(o) == ret.owner_ages[o] >= _claim_months(SsItem(o))

\* C12 as stated: an owner with positive PIA is paid exactly 0 in every
\* month below the claiming age and more than 0 in the claiming month and
\* in every month after it.
C12_BenefitStartsAtClaimingAge ==
    SsPosted =>
        \A o \in DOMAIN ret.by_owner :
            SsItem(o).pia_at_fra > 0 =>
                IF SsClaimed(o) THEN ret.by_owner[o].num > 0 ELSE ret.by_owner[o].num = 0

\* the claiming adjustment is above 0 (the claim is less than 228 months
\* before full retirement age) and the COLA is above -100%
SsPayable(o) ==
    /\ _claim_months(SsItem(o)) - _fra_months(SsItem(o)) > 0 - 228
    /\ _cola_rate(SsItem(o), plan.inflation_rate) > 0 - 100

\* C12: an owner with positive PIA is paid exactly 0 in every month below
\* the claiming age; in the claiming month and every month after it the
\* owner is paid more than 0 provided the claiming age is less than 228
\* months before full retirement age and the COLA is above -100%.
C12_BenefitStartsAtClaimingAgeIfPayable ==
    SsPosted =>
        \A o \in DOMAIN ret.by_owner :
            SsItem(o).pia_at_fra > 0 =>
                /\ ~SsClaimed(o) => ret.by_owner[o].num = 0
                /\ (SsClaimed(o) /\ SsPayable(o)) => ret.by_owner[o].num > 0

C12_Witness ==
    /\ SsPosted
    /\ call.months >= 2
    /\ DOMAIN ret.by_owner = {"primary"}
    /\ SsItem("primary").pia_at_fra > 0
    /\ SsItem("primary").claiming_age_years = 48
    /\ SsItem("primary").claiming_age_months = 1
    /\ ret.owner_ages["primary"] = _claim_months(SsItem("primary"))
    /\ ret.by_owner["primary"].num > 0

SsOther(o) == IF o = "primary" THEN "spouse" ELSE "primary"

\* C13: with entries for both owners, an owner whose PIA is below half the
\* other's is paid, from the own claiming age on, half the other's PIA
\* times the own claiming adjustment, compounded with the own COLA; an
\* owner whose PIA is at least half the other's is paid the own benefit.
C13_SpousalTopUp ==
    (SsPosted /\ DOMAIN ret.by_owner = {"primary", "spouse"}) =>
        \A o \in {"primary", "spouse"} :
            LET item == SsItem(o)
                years == (ret.owner_ages[o] - _claim_months(item)) \div 12
                factor == Pow(100 + _cola_rate(item, plan.inflation_rate), years)
            IN SsClaimed(o) =>
                 IF 2 * item.pia_at_fra < SsItem(SsOther(o)).pia_at_fra
                 THEN ret.by_owner[o] =
                          [num |-> SsItem(SsOther(o)).pia_at_fra * _claiming_adjustment(item) * factor,
                           years |-> years]
                 ELSE ret.by_owner[o] =
                          [num |-> 2 * item.pia_at_fra * _claiming_adjustment(item) * factor,
                           years |-> years]

C13_Witness ==
    /\ SsPosted
    /\ DOMAIN ret.by_owner = {"primary", "spouse"}
    /\ SsItem("primary").pia_at_fra = 5
    /\ SsItem("spouse").pia_at_fra = 16
    /\ SsItem("primary").claiming_age_years = 70
    /\ SsItem("primary").cola_assumption = "match_inflation"
    /\ ret.owner_ages["primary"] >= _claim_months(SsItem("primary")) + 12
    /\ ret.by_owner["primary"] = [num |-> 16 * 4464 * 103, years |-> 1]
    /\ ret.by_owner["spouse"].num > 0

----------------------------------------------------------------------------
(* The tax calculator called on its own.                                   *)

TaxSummary(year, fs, state, ordinary, gains, dividends, investment) ==
    [year |-> year, filing_status |-> fs, state |-> state,
     ordinary_income |-> Cents(ordinary), capital_gains |-> Cents(gains),
     qualified_dividends |-> Cents(dividends), investment_income |-> Cents(investment),
     itemized_deductions |-> 0, early_withdrawal_penalty |-> 0]

TaxSummaries ==
    {TaxSummary(year, fs, state, ordinary, gains, dividends, investment) :
        year \in {2026, 2027},
        fs \in {"single", "married_filing_jointly", "bad_status"},
        state \in {"CA", "PA"},
        ordinary \in {50000, 100000, 250000},
        gains \in {0, 40000},
        dividends \in {0, 10000},
        investment \in {0, 20000, 80000}}

\* the default settings, and every rate override 0 with the AMT off
TaxSettingsSets ==
    {[DefaultTaxSettings EXCEPT !.niit_enabled = niit] : niit \in BOOLEAN}
    \cup {[DefaultTaxSettings EXCEPT !.niit_enabled = niit, !.amt_enabled = FALSE,
                                     !.federal_effective_rate_override = 0,
                                     !.state_effective_rate_override = 0,
                                     !.capital_gains_rate_override = 0] : niit \in BOOLEAN}

TaxInflation == 3

TaxInit ==
    /\ plan = [tax_settings |-> DefaultTaxSettings]
    /\ \E summary \in TaxSummaries, settings \in TaxSettingsSets :
         call = [summary |-> summary, tax_settings |-> settings]
    /\ ret = EmptyMap
    /\ pc = "call"
    /\ balances = EmptyMap
    /\ cost_basis = EmptyMap
    /\ EngineIdle

\* compute_total_tax(summary, tax_settings): no path of it raises
TaxComputeTotal ==
    /\ pc = "call"
    /\ ret' = [raised |-> FALSE,
               result |-> compute_total_tax(call.summary, call.tax_settings, TaxInflation)]
    /\ pc' = "returned"
    /\ UNCHANGED <<plan, balances, cost_basis, call, engineVars>>

\* compute_state_tax(taxable_income, state, filing_status, year)
TaxComputeState ==
    /\ pc = "call"
    /\ ret' = [raised |-> FALSE,
               tax |-> compute_state_tax(call.summary.ordinary_income, call.summary.state,
                                         call.summary.filing_status, call.summary.year, TaxInflation)]
    /\ pc' = "state_returned"
    /\ UNCHANGED <<plan, balances, cost_basis, call, engineVars>>

TaxNext == TaxComputeTotal \/ TaxComputeState

SpecTax == TaxInit /\ [][TaxNext]_vars

----------------------------------------------------------------------------
(* Claims about the tax calculator.                                        *)

\* C14: compute_total_tax raises when the summary's filing status is not a
\* recognised one, and computes no tax for it.
C14_UnknownFilingStatusRaises ==
    (pc = "returned" /\ call.summary.filing_status \notin FILING_STATUSES) => ret.raised

\* C17: the state tax of CA (single, 2026) on 250,000 is a strictly higher
\* share of the income than on 50,000 (more than 5 times the tax on
\* 50,000), and PA owes exactly 3.07% of the income at every level.
C17_StateTaxProgressive ==
    pc = "state_returned" =>
        /\ (/\ call.summary.state = "CA"
            /\ call.summary.filing_status = "single"
            /\ call.summary.year = 2026
            /\ call.summary.ordinary_income = Cents(250000))
           => ret.tax > 5 * compute_state_tax(Cents(50000), "CA", "single", 2026, TaxInflation)
        /\ call.summary.state = "PA" => ret.tax = MulDiv(call.summary.ordinary_income, 307, 10000)

\* C18: with NIIT enabled the NIIT is 3.8% of the smaller of (investment
\* income + capital gains + qualified dividends) and max(0, AGI - the
\* filing status's threshold); it is 0 when disabled.  (Single, 2026,
\* ordinary 250,000, gains 40,000, dividends 10,000, investment 20,000:
\* 2,660.)
C18_NiitOnCombinedBase ==
    pc = "returned" =>
        LET s == call.summary
            base == s.investment_income + s.capital_gains + s.qualified_dividends
            agi == s.ordinary_income + s.capital_gains + s.qualified_dividends
            threshold == _year_factor(Cents(NIIT_THRESHOLDS(_normalize_filing_status(s.filing_status))),
                                      s.year, TaxInflation)
        IN ret.result.niit_tax =
               IF call.tax_settings.niit_enabled
               THEN MulDiv(Min(base, Max(0, agi - threshold)), 38, 1000)
               ELSE 0

----------------------------------------------------------------------------
(* The setup of run_deterministic and the cash postings of its months, on  *)
(* plans with no, one or several cash accounts.                            *)

\* _pick_cash_account returns (it raises ValueError otherwise)
HasCashAccount(accounts) == \E i \in 1..Len(accounts) : accounts[i].type = "cash"

MaxSetupMonths == 3

SetupBalances == {0, 1000 * 100}

SetupAccountLists ==
    {<<>>}
    \cup {<< EngAccount("Brk", "taxable_brokerage", b1, 0), EngAccount("Ira", "traditional_ira", b2, 0) >> :
            b1 \in SetupBalances, b2 \in SetupBalances}
    \cup {<< EngAccount("Checking", "cash", b1, 0) >> : b1 \in SetupBalances}
    \cup {<< EngAccount("Brk", "taxable_brokerage", b1, 0), EngAccount("Savings", "cash", b2, 0),
             EngAccount("Checking", "cash", b3, 0) >> :
            b1 \in SetupBalances, b2 \in SetupBalances, b3 \in SetupBalances}
    \cup {<< EngAccount("Checking", "cash", b1, 0), EngAccount("Roth", "roth_ira", b2, 0),
             EngAccount("Savings", "cash", b3, 0) >> :
            b1 \in SetupBalances, b2 \in SetupBalances, b3 \in SetupBalances}

SetupInit ==
    /\ \E accounts \in SetupAccountLists : plan = [accounts |-> accounts]
    /\ call = [cash_account |-> "", months |-> 0]
    /\ ret = EmptyMap
    /\ pc = "setup"
    /\ balances = EmptyMap
    /\ cost_basis = EmptyMap
    /\ EngineIdle

\* The setup: the working balances, the cash account (or the ValueError),
\* the cost-basis trackers, the Roth contribution basis.
SetupRun ==
    /\ pc = "setup"
    /\ IF ~HasCashAccount(plan.accounts)
       THEN /\ pc' = "raised"
            /\ UNCHANGED <<balances, cost_basis, call, roth_contribution_basis, prior_year_end_balances>>
       ELSE /\ pc' = "months"
            /\ call' = [call EXCEPT !.cash_account = _pick_cash_account(plan.accounts)]
            /\ balances' = [name \in AccountNames(plan.accounts) |-> AccountNamed(plan.accounts, name).balance]
            /\ cost_basis' = [name \in {a.name : a \in {b \in Range(plan.accounts) : b.type = "taxable_brokerage"}} |->
                                 AccountNamed(plan.accounts, name).cost_basis]
            /\ prior_year_end_balances' =
                   [name \in AccountNames(plan.accounts) |-> AccountNamed(plan.accounts, name).balance]
            /\ roth_contribution_basis' =
                   [name \in {a.name : a \in {b \in Range(plan.accounts) : b.type = "roth_ira"}} |->
                       Max(0, AccountNamed(plan.accounts, name).balance)]
    /\ UNCHANGED <<plan, ret, month_pos, loc, annual_by_year, monthly_results,
                   early_withdrawal_penalties, annual_fica_withheld, annual_estimated_tax_paid,
                   settle, obs>>

\* A month's postings to cash: the income credited (step 2) and the
\* expenses debited (step 19), both on the cash account of the setup.
SetupMonth ==
    /\ pc = "months"
    /\ call.months < MaxSetupMonths
    /\ \E income \in {0, 500 * 100}, total_expenses \in {0, 200 * 100} :
         balances' = [balances EXCEPT ![call.cash_account] = (@ + income) - total_expenses]
    /\ call' = [call EXCEPT !.months = @ + 1]
    /\ UNCHANGED <<plan, cost_basis, pc, ret, engineVars>>

SetupNext == SetupRun \/ SetupMonth

SpecSetup == SetupInit /\ [][SetupNext]_vars

\* C15: a plan without a cash account makes the run raise before any month
\* is simulated; otherwise the first cash account in declaration order is
\* the cash account, and the only account the cash postings move.
C15_FirstCashAccountOrRaise ==
    /\ pc = "raised" =>
          /\ \A i \in 1..Len(plan.accounts) : plan.accounts[i].type # "cash"
          /\ call.months = 0 /\ monthly_results = <<>>
    /\ pc = "months" =>
          \E k \in 1..Len(plan.accounts) :
              /\ plan.accounts[k].type = "cash"
              /\ \A j \in 1..(k - 1) : plan.accounts[j].type # "cash"
              /\ call.cash_account = plan.accounts[k].name
              /\ \A j \in 1..Len(plan.accounts) :
                    j # k => balances[plan.accounts[j].name] = plan.accounts[j].balance

C15_Witness ==
    /\ pc = "months"
    /\ call.months = 2
    /\ Len(plan.accounts) = 3
    /\ plan.accounts[1].type # "cash"
    /\ call.cash_account = "Savings"
    /\ balances["Savings"] # plan.accounts[2].balance
    /\ balances["Checking"] = plan.accounts[3].balance

----------------------------------------------------------------------------
(* FICA: compute_fica and the year-to-date wages the engine keeps for it.  *)

\* rates per 10,000, amounts in dollars
FICA_RATES ==
    [social_security_rate |-> 620, social_security_wage_base |-> 184500,
     medicare_rate |-> 145, additional_medicare_rate |-> 90,
     additional_medicare_single_threshold |-> 200000,
     additional_medicare_joint_threshold |-> 250000]

\* compute_fica(wages, ytd_wages, year, inflation_rate)
compute_fica(wages, ytd_wages, year, inflation_pct) ==
    IF wages <= 0 THEN 0
    ELSE LET ss_wage_base == _year_factor(Cents(FICA_RATES.social_security_wage_base), year, inflation_pct)
             additional_threshold ==
                 _year_factor(Cents(FICA_RATES.additional_medicare_single_threshold), year, inflation_pct)
             ss_taxable == Max(0, Min(wages, ss_wage_base - Max(0, ytd_wages)))
             ss_tax == MulDiv(ss_taxable, FICA_RATES.social_security_rate, 10000)
             medicare_tax == MulDiv(wages, FICA_RATES.medicare_rate, 10000)
             additional_taxable == Max(0, (ytd_wages + wages) - additional_threshold)
                                   - Max(0, ytd_wages - additional_threshold)
             additional_tax == MulDiv(Max(0, additional_taxable), FICA_RATES.additional_medicare_rate, 10000)
         IN ss_tax + medicare_tax + additional_tax

MaxFicaMonths == 4

\* wages of one posting, in dollars
FicaWages == {0, 50000, 100000, 150000}

FicaInit ==
    /\ \E fs \in {"single", "married_filing_jointly"} :
         plan = [filing_status |-> fs, plan_settings |-> [inflation_rate |-> 3]]
    /\ call = [year |-> 2026, month |-> 11, months |-> 0,
               ytd_wages_by_owner |-> [o \in {"primary", "spouse"} |-> 0],
               wages_of_year |-> 0, fica_of_year |-> 0]
    /\ ret = [fica_withheld |-> 0]
    /\ pc = "post"
    /\ balances = EmptyMap
    /\ cost_basis = EmptyMap
    /\ EngineIdle

\* A wage posting to the primary owner.  A caller that passes the filing
\* status, as the engine does, gets a TypeError: compute_fica has no such
\* parameter.
FicaPost ==
    /\ pc = "post"
    /\ \E wages \in FicaWages, passes_filing_status \in BOOLEAN :
         IF passes_filing_status /\ wages > 0
         THEN pc' = "raised" /\ UNCHANGED <<call, ret>>
         ELSE LET fica_withheld == compute_fica(Cents(wages), call.ytd_wages_by_owner["primary"],
                                                call.year, plan.plan_settings.inflation_rate)
              IN /\ ret' = [fica_withheld |-> fica_withheld]
                 /\ call' = [call EXCEPT !.ytd_wages_by_owner["primary"] = @ + Cents(wages),
                                         !.wages_of_year = @ + Cents(wages),
                                         !.fica_of_year = @ + fica_withheld]
                 /\ pc' = "posted"
    /\ UNCHANGED <<plan, balances, cost_basis, engineVars>>

\* The next month; in January the year-to-date wages restart at zero.
FicaNextMonth ==
    /\ pc = "posted"
    /\ call.months + 1 < MaxFicaMonths
    /\ call' = IF call.month = 12
               THEN [call EXCEPT !.year = @ + 1, !.month = 1, !.months = @ + 1,
                                 !.ytd_wages_by_owner = [o \in {"primary", "spouse"} |-> 0],
                                 !.wages_of_year = 0, !.fica_of_year = 0]
               ELSE [call EXCEPT !.month = @ + 1, !.months = @ + 1]
    /\ pc' = "post"
    /\ UNCHANGED <<plan, balances, cost_basis, ret, engineVars>>

FicaNext == FicaPost \/ FicaNextMonth

SpecFica == FicaInit /\ [][FicaNext]_vars

\* the Additional-Medicare threshold of a filing status, in dollars
AdditionalMedicareThreshold(fs) ==
    IF fs = "married_filing_jointly" THEN 250000 ELSE 200000

\* C16: the FICA withheld on a year's wage postings to one owner is 6.2% of
\* the wages up to the year's wage base, 1.45% of all the wages and 0.9% of
\* the wages above the filing status's Additional-Medicare threshold; the
\* year-to-date wages restart in January; no posting raises.
C16_FicaOfYear ==
    /\ pc # "raised"
    /\ call.ytd_wages_by_owner["primary"] = call.wages_of_year
    /\ pc = "posted" =>
         LET wages == call.wages_of_year
             base == _year_factor(Cents(184500), call.year, plan.plan_settings.inflation_rate)
             threshold == _year_factor(Cents(AdditionalMedicareThreshold(plan.filing_status)),
                                       call.year, plan.plan_settings.inflation_rate)
         IN call.fica_of_year = MulDiv(Min(wages, base), 62, 1000)
                                + MulDiv(wages, 145, 10000)
                                + MulDiv(Max(0, wages - threshold), 9, 1000)

----------------------------------------------------------------------------
(* Step 15 of the month: sell_asset transactions.                          *)

\* every status taken for married_filing_jointly
_primary_residence_exclusion_Joint(filing_status) == Cents(500000)

_primary_residence_exclusion(filing_status) ==
    IF filing_status = "married_filing_jointly" THEN Cents(500000) ELSE Cents(250000)

\* What one sell_asset transaction does to the month, given the asset's
\* state: [gain, realized_cg, ordinary_income, proceeds]; purchase_price -1
\* is None.
SellAsset(txn, asset, filing_status) ==
    LET proceeds == Max(0, txn.amount - txn.fees)
        basis == IF asset.purchase_price < 0 THEN 0 ELSE asset.purchase_price
        gain0 == Max(0, proceeds - basis)
        gain == IF asset.primary_residence
                THEN Max(0, gain0 - _primary_residence_exclusion(filing_status))
                ELSE gain0
    IN [gain |-> gain,
        realized_cg |-> IF txn.tax_treatment = "capital_gains" THEN gain ELSE 0,
        ordinary_income |-> IF txn.tax_treatment = "income" THEN gain ELSE 0,
        proceeds |-> proceeds]

MaxSales == 2

\* sale prices, fees and purchase prices in dollars
SaleAmounts == {400000, 700000, 1100000}
SaleFees == {0, 50000}
SalePurchasePrices == {0 - 1, 300000}

SaleInit ==
    /\ \E fs \in {"single", "married_filing_jointly", "married_filing_separately", "qualifying_surviving_spouse"},
          price \in SalePurchasePrices, primary_residence \in BOOLEAN, n \in 1..MaxSales,
          amount \in SaleAmounts, fees \in SaleFees,
          treatment \in {"capital_gains", "income", "none"}, deposit \in {"", "Roth"} :
         /\ plan = [filing_status |-> fs,
                    accounts |-> << EngAccount("Cash", "cash", 0, 0), EngAccount("Roth", "roth_ira", 0, 0) >>,
                    real_assets |-> << [name |-> "Home",
                                        purchase_price |-> IF price < 0 THEN price ELSE Cents(price),
                                        primary_residence |-> primary_residence] >>,
                    transactions |-> [i \in 1..n |->
                                         [name |-> "Sell home", type |-> "sell_asset",
                                          amount |-> Cents(amount), fees |-> Cents(fees),
                                          tax_treatment |-> treatment, linked_asset |-> "Home",
                                          deposit_to_account |-> deposit]]]
    /\ call = [real_asset_state |-> {"Home"}, next_txn |-> 1]
    /\ ret = [sold |-> FALSE, gain |-> 0, month_realized_cg |-> 0, month_taxable_ordinary_income |-> 0]
    /\ balances = [name \in {"Cash", "Roth"} |-> 0]
    /\ roth_contribution_basis = [name \in {"Roth"} |-> 0]
    /\ cost_basis = EmptyMap
    /\ pc = "transactions"
    /\ EngineIdleButBasis

\* The next transaction of the month: a sale of an asset still held
\* removes it, books the gain by the tax treatment and deposits the
\* proceeds; a sale of an asset no longer held does nothing.
SaleTransaction ==
    /\ pc = "transactions"
    /\ call.next_txn <= Len(plan.transactions)
    /\ LET txn == plan.transactions[call.next_txn]
           asset == CHOOSE a \in Range(plan.real_assets) : a.name = txn.linked_asset
           s == SellAsset(txn, asset, plan.filing_status)
           deposit == IF txn.deposit_to_account = "" THEN _pick_cash_account(plan.accounts)
                      ELSE txn.deposit_to_account
       IN IF txn.type = "sell_asset" /\ txn.linked_asset # "" /\ txn.linked_asset \in call.real_asset_state
          THEN /\ call' = [real_asset_state |-> call.real_asset_state \ {txn.linked_asset},
                           next_txn |-> call.next_txn + 1]
               /\ ret' = [sold |-> TRUE, gain |-> s.gain,
                          month_realized_cg |-> ret.month_realized_cg + s.realized_cg,
                          month_taxable_ordinary_income |-> ret.month_taxable_ordinary_income + s.ordinary_income]
               /\ balances' = [balances EXCEPT ![deposit] = @ + s.proceeds]
               /\ roth_contribution_basis' =
                      _record_roth_basis_contribution(roth_contribution_basis, deposit, s.proceeds)
          ELSE /\ call' = [call EXCEPT !.next_txn = @ + 1]
               /\ ret' = [ret EXCEPT !.sold = FALSE]
               /\ UNCHANGED <<balances, roth_contribution_basis>>
    /\ UNCHANGED <<plan, cost_basis, pc, engineVarsButBasis>>

SaleNext == SaleTransaction

SpecSale == SaleInit /\ [][SaleNext]_vars

\* C19: the taxable gain of a sell_asset transaction is max(0, proceeds -
\* purchase price - exclusion) for a primary residence, the exclusion being
\* 500,000 for married_filing_jointly and 250,000 for every other status,
\* and max(0, proceeds - purchase price) for any other asset.
C19_ResidenceGainExclusion ==
    ret.sold =>
        LET txn == plan.transactions[call.next_txn - 1]
            asset == plan.real_assets[1]
            proceeds == Max(0, txn.amount - txn.fees)
            price == Max(0, asset.purchase_price)
            exclusion == IF plan.filing_status = "married_filing_jointly" THEN 50000000 ELSE 25000000
        IN /\ ret.gain = IF asset.primary_residence
                         THEN Max(0, (proceeds - price) - exclusion)
                         ELSE Max(0, proceeds - price)
           /\ ret.month_realized_cg + ret.month_taxable_ordinary_income =
                  IF txn.tax_treatment \in {"capital_gains", "income"} THEN ret.gain ELSE 0

C19_Witness ==
    /\ ret.sold
    /\ plan.filing_status = "married_filing_jointly"
    /\ plan.real_assets[1].primary_residence
    /\ plan.real_assets[1].purchase_price = 30000000
    /\ plan.transactions[1].amount = 110000000
    /\ plan.transactions[1].fees = 0
    /\ ret.gain = 30000000
    /\ ret.month_realized_cg = 30000000

----------------------------------------------------------------------------
(* A CostBasisTracker under any sequence of add_basis and withdraw calls.  *)

MaxBasisCalls == 3

\* amounts and balances of the calls, in cents
BasisAmounts == {0 - 100, 0, 300, 700, 1000}
BasisBalances == {0 - 100, 0, 500, 1000, 2000}

BasisInit ==
    /\ plan = [accounts |-> << EngAccount("Brk", "taxable_brokerage", 1000, 0) >>]
    /\ cost_basis \in [{"Brk"} -> {0, 400, 1000}]
    /\ call = [op |-> "none", amount |-> 0, balance_before |-> 0, basis_before |-> 0, calls |-> 0]
    /\ ret = [realized_gain |-> 0]
    /\ pc = "tracker"
    /\ balances = EmptyMap
    /\ EngineIdle

\* tracker.add_basis(amount)
BasisAdd ==
    /\ call.calls < MaxBasisCalls
    /\ \E amount \in BasisAmounts :
         /\ cost_basis' = [cost_basis EXCEPT !["Brk"] = CostBasisAdd(@, amount)]
         /\ call' = [op |-> "add_basis", amount |-> amount, balance_before |-> 0,
                     basis_before |-> cost_basis["Brk"], calls |-> call.calls + 1]
    /\ ret' = [realized_gain |-> 0]
    /\ UNCHANGED <<plan, balances, pc, engineVars>>

\* tracker.withdraw(amount, balance_before)
BasisWithdraw ==
    /\ call.calls < MaxBasisCalls
    /\ \E amount \in BasisAmounts, balance_before \in BasisBalances :
         LET r == CostBasisWithdraw(cost_basis["Brk"], amount, balance_before)
         IN /\ cost_basis' = [cost_basis EXCEPT !["Brk"] = r.total_basis]
            /\ ret' = [realized_gain |-> r.gain]
            /\ call' = [op |-> "withdraw", amount |-> amount, balance_before |-> balance_before,
                        basis_before |-> cost_basis["Brk"], calls |-> call.calls + 1]
    /\ UNCHANGED <<plan, balances, pc, engineVars>>

BasisNext == BasisAdd \/ BasisWithdraw

SpecBasis == BasisInit /\ [][BasisNext]_vars

\* C20: a tracker that starts with total_basis >= 0 keeps it >= 0; a
\* withdraw of a positive amount from a positive balance returns the gain
\* amount x (1 - min(1, basis / balance)), within [0, amount], and lowers
\* the basis by amount x min(1, basis / balance), floored at 0; add_basis
\* of a non-positive amount changes nothing.
C20_BasisNeverNegative ==
    /\ cost_basis["Brk"] >= 0
    /\ (call.op = "withdraw" /\ call.amount > 0 /\ call.balance_before > 0) =>
         LET reduction == IF call.basis_before >= call.balance_before THEN call.amount
                          ELSE (call.amount * call.basis_before) \div call.balance_before
         IN /\ ret.realized_gain = call.amount - reduction
            /\ ret.realized_gain >= 0 /\ ret.realized_gain <= call.amount
            /\ cost_basis["Brk"] = Max(0, call.basis_before - reduction)
    /\ (call.op = "add_basis" /\ call.amount <= 0) => cost_basis["Brk"] = call.basis_before

C20_Witness ==
    /\ call.calls = 3
    /\ call.op = "withdraw"
    /\ call.amount = 700
    /\ call.balance_before = 2000
    /\ call.basis_before = 1300
    /\ ret.realized_gain = 245
    /\ cost_basis["Brk"] = 845

----------------------------------------------------------------------------
(* Healthcare costs and the IRMAA surcharge (healthcare.py), called once a *)
(* month by the engine (step 16), which persists the year's MAGI at each   *)
(* December close.  Ages are whole months, money is cents.                 *)

\* x * (1 + annual_rate) ** years_elapsed; rates are whole percents and a
\* change_rate of None counts as 0 ("change_rate or 0.0")
_change_multiplier(x, change_over_time, change_rate, inflation_pct, years_elapsed) ==
    LET annual_rate == CASE change_over_time = "fixed" -> 0
                         [] change_over_time = "increase" -> change_rate
                         [] change_over_time = "decrease" -> 0 - change_rate
                         [] change_over_time = "match_inflation" -> inflation_pct
                         [] change_over_time = "inflation_plus" -> inflation_pct + change_rate
                         [] change_over_time = "inflation_minus" -> inflation_pct - change_rate
                         [] OTHER -> 0
    IN IF years_elapsed <= 0 THEN x ELSE ScaleYears(x, annual_rate, years_elapsed)

\* (upper bound in dollars or -1 for None, Part B, Part D monthly dollars)
IrmaaRow(upper, part_b, part_d) == [upper |-> upper, part_b |-> part_b, part_d |-> part_d]

IRMAA_BRACKETS(status) ==
    CASE status = "single" ->
           << IrmaaRow(106000, 0, 0), IrmaaRow(133000, 74, 13), IrmaaRow(167000, 185, 33),
              IrmaaRow(200000, 296, 52), IrmaaRow(500000, 407, 71), IrmaaRow(0 - 1, 444, 82) >>
      [] status = "married_filing_jointly" ->
           << IrmaaRow(212000, 0, 0), IrmaaRow(266000, 74, 13), IrmaaRow(334000, 185, 33),
              IrmaaRow(400000, 296, 52), IrmaaRow(750000, 407, 71), IrmaaRow(0 - 1, 444, 82) >>
      [] status = "married_filing_separately" ->
           << IrmaaRow(106000, 0, 0), IrmaaRow(133000, 407, 71), IrmaaRow(0 - 1, 444, 82) >>
      [] status = "head_of_household" ->
           << IrmaaRow(106000, 0, 0), IrmaaRow(133000, 74, 13), IrmaaRow(167000, 185, 33),
              IrmaaRow(200000, 296, 52), IrmaaRow(500000, 407, 71), IrmaaRow(0 - 1, 444, 82) >>
      [] status = "qualifying_surviving_spouse" ->
           << IrmaaRow(212000, 0, 0), IrmaaRow(266000, 74, 13), IrmaaRow(334000, 185, 33),
              IrmaaRow(400000, 296, 52), IrmaaRow(750000, 407, 71), IrmaaRow(0 - 1, 444, 82) >>

\* the first row whose inflated upper bound holds the MAGI
RECURSIVE IrmaaRowOf(_, _, _, _)
IrmaaRowOf(rows, year, inflation_pct, lookback_magi) ==
    IF rows = <<>> THEN IrmaaRow(0 - 1, 0, 0)
    ELSE IF Head(rows).upper = 0 - 1
            \/ lookback_magi <= _year_factor(Cents(Head(rows).upper), year, inflation_pct)
         THEN Head(rows)
         ELSE IrmaaRowOf(Tail(rows), year, inflation_pct, lookback_magi)

\* (part_b * factor, part_d * factor)
_irmaa_surcharge_monthly(filing_status, year, inflation_pct, lookback_magi) ==
    LET status == IF filing_status \in FILING_STATUSES THEN filing_status ELSE "single"
        row == IrmaaRowOf(IRMAA_BRACKETS(status), year, inflation_pct, lookback_magi)
    IN [part_b |-> _year_factor(Cents(row.part_b), year, inflation_pct),
        part_d |-> _year_factor(Cents(row.part_d), year, inflation_pct)]

MedicareAgeMonths == 780

\* a medicare_start_date of None is "start" (NoDate stands for None)
NoDate == [kind |-> "none", year |-> 0, month |-> 0]

OrDate(value, default) == IF value.kind = "none" THEN default ELSE value

\* the post-Medicare item applies at an age below 66
_post_medicare_active_At66(item, owner_age, current_index, p_start, p_end) ==
    /\ ~(owner_age < MedicareAgeMonths + 12)
    /\ _is_active(OrDate(item.medicare_start_date, DateStart), DateEnd, current_index, p_start, p_end)

_post_medicare_active(item, owner_age, current_index, p_start, p_end) ==
    /\ ~(owner_age < MedicareAgeMonths)
    /\ _is_active(OrDate(item.medicare_start_date, DateStart), DateEnd, current_index, p_start, p_end)

\* what one pre_medicare item adds to the month's total
PreMedicareCharge(item, owner_ages, cur, p) ==
    IF ~_is_active(OrDate(item.start_date, DateStart), OrDate(item.end_date, DateEnd),
                   cur.index, p.plan_start, p.plan_end)
    THEN 0
    ELSE IF OwnerAge(owner_ages, item.owner) >= MedicareAgeMonths
    THEN 0
    ELSE _change_multiplier(item.monthly_premium + item.annual_out_of_pocket \div 12,
                            item.change_over_time, item.change_rate, p.inflation_pct,
                            Max(0, cur.year - p.plan_start.year))

\* what one post_medicare item adds to the month's total, the surcharge apart
PostMedicareCharge(item, owner_ages, cur, p) ==
    IF ~_post_medicare_active(item, OwnerAge(owner_ages, item.owner), cur.index, p.plan_start, p.plan_end)
    THEN 0
    ELSE _change_multiplier(item.part_b_monthly_premium + item.supplement_monthly_premium
                              + item.part_d_monthly_premium + item.annual_out_of_pocket \div 12,
                            item.change_over_time, item.change_rate, p.inflation_pct,
                            Max(0, cur.year - p.plan_start.year))

\* the history looked up one year too late
LookbackMagi_Late(p, cur, irmaa_magi_history) ==
    LET lookback_year == cur.year - p.healthcare.irmaa.lookback_years + 1
    IN IF lookback_year \in DOMAIN irmaa_magi_history THEN Max(0, irmaa_magi_history[lookback_year]) ELSE 0

\* max(0.0, irmaa_magi_history.get(lookback_year, 0.0))
LookbackMagi(p, cur, irmaa_magi_history) ==
    LET lookback_year == cur.year - p.healthcare.irmaa.lookback_years
    IN IF lookback_year \in DOMAIN irmaa_magi_history THEN Max(0, irmaa_magi_history[lookback_year]) ELSE 0

\* the surcharge one post_medicare item adds
IrmaaCharge(item, owner_ages, cur, p, irmaa_magi_history) ==
    IF ~_post_medicare_active(item, OwnerAge(owner_ages, item.owner), cur.index, p.plan_start, p.plan_end)
    THEN 0
    ELSE IF ~p.healthcare.irmaa.enabled
    THEN 0
    ELSE LET s == _irmaa_surcharge_monthly(p.filing_status, cur.year, p.inflation_pct,
                                           LookbackMagi(p, cur, irmaa_magi_history))
         IN s.part_b + s.part_d

\* (healthcare_cost, irmaa_surcharge_component) of the month
compute_monthly_healthcare_cost(p, owner_ages, cur, irmaa_magi_history) ==
    LET pre == [i \in 1..Len(p.healthcare.pre_medicare) |->
                   PreMedicareCharge(p.healthcare.pre_medicare[i], owner_ages, cur, p)]
        post == [i \in 1..Len(p.healthcare.post_medicare) |->
                    PostMedicareCharge(p.healthcare.post_medicare[i], owner_ages, cur, p)]
        irmaa == [i \in 1..Len(p.healthcare.post_medicare) |->
                     IrmaaCharge(p.healthcare.post_medicare[i], owner_ages, cur, p, irmaa_magi_history)]
    IN [total |-> SumSeq(pre) + SumSeq(post) + SumSeq(irmaa),
        irmaa |-> SumSeq(irmaa),
        pre_medicare |-> pre,
        post_medicare |-> post]

\* the owner_ages the engine builds each month
HcOwnerAges(p, cur) ==
    [o \in {"primary", "spouse"} |->
        IF o = "primary" THEN _age_years_at_month(p.people.primary.birthday, cur.year, cur.month)
        ELSE IF p.people.has_spouse
             THEN _age_years_at_month(p.people.spouse.birthday, cur.year, cur.month)
             ELSE 0]

\* irmaa_magi_history[year] = max(0, ordinary + gains + qualified dividends)
IrmaaHistoryClosed(irmaa_magi_history, year, taxable_ordinary_income, realized_capital_gains, qualified_dividends) ==
    [y \in DOMAIN irmaa_magi_history \cup {year} |->
        IF y = year THEN Max(0, taxable_ordinary_income + realized_capital_gains + qualified_dividends)
        ELSE irmaa_magi_history[y]]

MaxHcYears == 3

PreItem(owner, end_date, change_over_time) ==
    [owner |-> owner, monthly_premium |-> Cents(1200), annual_out_of_pocket |-> Cents(2400),
     start_date |-> NoDate, end_date |-> end_date, change_over_time |-> change_over_time, change_rate |-> 0]

PostItem(owner, medicare_start_date, change_over_time) ==
    [owner |-> owner, medicare_start_date |-> medicare_start_date, part_b_monthly_premium |-> Cents(100),
     supplement_monthly_premium |-> Cents(50), part_d_monthly_premium |-> Cents(25),
     annual_out_of_pocket |-> Cents(1200), change_over_time |-> change_over_time, change_rate |-> 0]

\* primary turns 65 in 2026-06 or in 2027-01, or is 65 throughout
HcPrimaryBirthdays == {Ym(1961, 6), Ym(1962, 1), Ym(1950, 1)}

\* the year's taxable ordinary income at a December close
HcOrdinaryIncomes == {0 - Cents(5000), Cents(600000)}

HcPlans ==
    {[plan_start |-> Ym(2026, 1), plan_end |-> Ym(2026 + MaxHcYears - 1, 12), inflation_pct |-> 3,
      filing_status |-> fs,
      people |-> [primary |-> [birthday |-> b], has_spouse |-> sp, spouse |-> [birthday |-> Ym(1962, 3)]],
      healthcare |-> [pre_medicare |-> << PreItem("primary", NoDate, chg), PreItem("spouse", IF chg = "fixed" THEN NoDate ELSE Ym(2026, 9), "fixed") >>,
                      post_medicare |-> << PostItem("primary", NoDate, chg), PostItem("spouse", med_start, "fixed") >>,
                      irmaa |-> [enabled |-> en, lookback_years |-> lb]]] :
        fs \in {"single", "married_filing_jointly"}, b \in HcPrimaryBirthdays, sp \in BOOLEAN,
        chg \in {"fixed", "match_inflation"},
        med_start \in {NoDate, Ym(2027, 9)}, en \in BOOLEAN, lb \in {0, 1, 2}}

HcInit ==
    /\ plan \in HcPlans
    /\ call = [pos |-> 0, cur |-> [year |-> 0, month |-> 0, index |-> 0],
               owner_ages |-> EmptyMap, irmaa_magi_history |-> EmptyMap]
    /\ ret = [total |-> 0, irmaa |-> 0, pre_medicare |-> <<>>, post_medicare |-> <<>>,
              irmaa_magi_history |-> EmptyMap, closes |-> <<>>]
    /\ pc = "months"
    /\ balances = EmptyMap
    /\ cost_basis = EmptyMap
    /\ EngineIdle

HcMonths == _iter_months(plan.plan_start, plan.plan_end)

\* A month other than December: step 16 with the history as it stands.
HcMonth ==
    /\ pc = "months"
    /\ call.pos < Len(HcMonths)
    /\ LET cur == HcMonths[call.pos + 1]
           owner_ages == HcOwnerAges(plan, cur)
           r == compute_monthly_healthcare_cost(plan, owner_ages, cur, ret.irmaa_magi_history)
       IN /\ cur.month # 12
          /\ call' = [pos |-> call.pos + 1, cur |-> cur, owner_ages |-> owner_ages,
                      irmaa_magi_history |-> ret.irmaa_magi_history]
          /\ ret' = [ret EXCEPT !.total = r.total, !.irmaa = r.irmaa,
                                !.pre_medicare = r.pre_medicare, !.post_medicare = r.post_medicare]
    /\ UNCHANGED <<plan, pc, balances, cost_basis, engineVars>>

\* A December: step 16, then the year's close stores the MAGI.
HcDecember ==
    /\ pc = "months"
    /\ call.pos < Len(HcMonths)
    /\ LET cur == HcMonths[call.pos + 1]
           owner_ages == HcOwnerAges(plan, cur)
           r == compute_monthly_healthcare_cost(plan, owner_ages, cur, ret.irmaa_magi_history)
       IN /\ cur.month = 12
          /\ call' = [pos |-> call.pos + 1, cur |-> cur, owner_ages |-> owner_ages,
                      irmaa_magi_history |-> ret.irmaa_magi_history]
          /\ \E ordinary \in HcOrdinaryIncomes :
               ret' = [total |-> r.total, irmaa |-> r.irmaa,
                       pre_medicare |-> r.pre_medicare, post_medicare |-> r.post_medicare,
                       irmaa_magi_history |->
                           IrmaaHistoryClosed(ret.irmaa_magi_history, cur.year, ordinary, Cents(1000), Cents(500)),
                       closes |-> Append(ret.closes,
                                         [year |-> cur.year,
                                          magi |-> Max(0, ordinary + Cents(1000) + Cents(500))])]
    /\ UNCHANGED <<plan, pc, balances, cost_basis, engineVars>>

HcNext == HcMonth \/ HcDecember

SpecHealthcare == HcInit /\ [][HcNext]_vars

HcPosted == pc = "months" /\ call.pos > 0

\* what the pre- and the post-Medicare items of an owner added this month
HcPreOf(o) ==
    SumSeq([i \in 1..Len(ret.pre_medicare) |->
               IF plan.healthcare.pre_medicare[i].owner = o THEN ret.pre_medicare[i] ELSE 0])

HcPostOf(o) ==
    SumSeq([i \in 1..Len(ret.post_medicare) |->
               IF plan.healthcare.post_medicare[i].owner = o THEN ret.post_medicare[i] ELSE 0])

HcMonthsOld(o) ==
    IF o = "spouse" /\ ~plan.people.has_spouse THEN 0
    ELSE (call.cur.year - plan.people[o].birthday.year) * 12 + (call.cur.month - plan.people[o].birthday.month)

\* C21: in every month an owner's pre-Medicare items are charged only
\* while the owner is younger than 65 and the post-Medicare items only
\* from the month of the 65th birthday on; the two are never both charged
\* for the same owner in one month.
C21_OneHealthcareModelPerOwner ==
    HcPosted =>
      \A o \in {"primary", "spouse"} :
         /\ HcPreOf(o) > 0 => HcMonthsOld(o) < 65 * 12
         /\ HcPostOf(o) > 0 => HcMonthsOld(o) >= 65 * 12
         /\ ~(HcPreOf(o) > 0 /\ HcPostOf(o) > 0)
         /\ (HcMonthsOld(o) = 65 * 12 /\ o = "primary") => (HcPreOf(o) = 0 /\ HcPostOf(o) > 0)

\* the primary, born 1961-06, in the birthday month 2026-06: the Medicare
\* items (175 + 1,200 / 12) replace the pre-Medicare ones
C21_Witness ==
    /\ HcPosted
    /\ call.cur.year = 2026 /\ call.cur.month = 6
    /\ plan.people.primary.birthday = Ym(1961, 6)
    /\ HcPreOf("primary") = 0
    /\ HcPostOf("primary") = Cents(275)

\* the December closes recorded so far hold the MAGI of a year
RECURSIVE StoredMagi(_, _)
StoredMagi(closes, year) ==
    IF closes = <<>> THEN 0
    ELSE IF closes[Len(closes)].year = year THEN closes[Len(closes)].magi
    ELSE StoredMagi(SubSeq(closes, 1, Len(closes) - 1), year)

\* the closes before this month's own close
HcClosesBefore ==
    IF call.cur.month = 12 THEN SubSeq(ret.closes, 1, Len(ret.closes) - 1) ELSE ret.closes

HcChargedItems ==
    {i \in 1..Len(plan.healthcare.post_medicare) : ret.post_medicare[i] > 0}

\* C25: the surcharge of a month of year Y is the per-item surcharge of the
\* bracket holding the MAGI stored at the December close of year
\* Y - lookback_years (0 when that year has no close yet), once for every
\* post-Medicare item charged to an owner aged 65 or more, and 0 when
\* IRMAA is disabled.
C25_IrmaaFromLookbackClose ==
    HcPosted =>
      LET magi == StoredMagi(HcClosesBefore, call.cur.year - plan.healthcare.irmaa.lookback_years)
          s == _irmaa_surcharge_monthly(plan.filing_status, call.cur.year, plan.inflation_pct, magi)
      IN /\ ret.irmaa = IF plan.healthcare.irmaa.enabled
                        THEN Cardinality(HcChargedItems) * (s.part_b + s.part_d)
                        ELSE 0
         /\ (\A o \in {"primary", "spouse"} : HcMonthsOld(o) < 65 * 12) => ret.irmaa = 0

\* 2028, lookback 2: the 2026 close stored 601,500 and the 2027 close 0;
\* a single filer aged 65 pays the surcharge of the 2026 bracket
C25_Witness ==
    /\ HcPosted
    /\ call.cur.year = 2028 /\ call.cur.month = 3
    /\ plan.healthcare.irmaa.enabled /\ plan.healthcare.irmaa.lookback_years = 2
    /\ plan.filing_status = "single"
    /\ ~plan.people.has_spouse
    /\ StoredMagi(ret.closes, 2026) = Cents(601500)
    /\ StoredMagi(ret.closes, 2027) = 0
    /\ ret.irmaa = _year_factor(Cents(444), 2028, 3) + _year_factor(Cents(82), 2028, 3)
    /\ ret.irmaa > 0

----------------------------------------------------------------------------
(* The yearly insolvency flag of run_deterministic.                        *)

\* some MonthResult of the year is flagged insolvent
YearHasInsolventMonth(months, year) ==
    \E i \in 1..Len(months) : months[i].year = year /\ months[i].insolvent

\* C22: a year's AnnualResult.insolvent is true exactly when one of the
\* year's months closed so far was flagged insolvent, so once set it stays
\* set for the later months of the year; the returned insolvency_years are
\* exactly the years with a flagged month, in ascending order.
C22_AnnualInsolventMonotonic ==
    /\ \A y \in DOMAIN annual_by_year :
         annual_by_year[y].insolvent <=> YearHasInsolventMonth(monthly_results, y)
    /\ pc = "done" =>
         /\ \A i \in 1..Len(ret.annual) :
              ret.annual[i].insolvent <=> YearHasInsolventMonth(ret.monthly, ret.annual[i].year)
         /\ Range(ret.insolvency_years) =
                {ret.monthly[i].year : i \in {j \in 1..Len(ret.monthly) : ret.monthly[j].insolvent}}
         /\ \A i \in 1..Len(ret.insolvency_years), j \in 1..Len(ret.insolvency_years) :
              i < j => ret.insolvency_years[i] < ret.insolvency_years[j]

\* 2026-11 closes insolvent, 2026-12 does not: 2026 stays flagged and is
\* the one year returned, 2027 is not
C22_Witness ==
    /\ pc = "done"
    /\ Len(ret.monthly) = 3
    /\ ret.monthly[1].year = 2026 /\ ret.monthly[1].insolvent
    /\ ret.monthly[2].year = 2026 /\ ~ret.monthly[2].insolvent
    /\ ret.monthly[3].year = 2027 /\ ~ret.monthly[3].insolvent
    /\ ret.insolvency_years = << 2026 >>

----------------------------------------------------------------------------
(* The place of the RMDs among the month's steps.                          *)

\* the Roth conversions of the current month on the given balances, the
\* month's ordinary income so far being `month_income`
RothOfMonth(bals, month_income) ==
    execute_roth_conversions(plan.roth_conversions, bals,
        [current_year |-> Cur.year, current_month |-> Cur.month,
         current_index |-> Cur.index, plan_start |-> plan_start,
         plan_end |-> plan_end, filing_status |-> plan.filing_status,
         inflation_rate |-> inflation_rate,
         ytd_taxable_ordinary_income |-> annual_by_year[Cur.year].taxable_ordinary_income + month_income])

RmdOfMonth(bals) ==
    execute_rmds(plan.rmds, plan.accounts, bals, prior_year_end_balances, owner_ages_now)

\* one RMD pass, then the conversions with the RMD counted as income
RmdThenRoth(bals, month_income) ==
    LET r == RmdOfMonth(bals)
        c == RothOfMonth(r.balances, month_income + r.ordinary_income)
    IN [balances |-> c.balances, withdrawals |-> r.total_withdrawals, transfers |-> c.total_converted]

\* the conversions, then one RMD pass on what they left
RothThenRmd(bals, month_income) ==
    LET c == RothOfMonth(bals, month_income)
        r == RmdOfMonth(c.balances)
    IN [balances |-> r.balances, withdrawals |-> r.total_withdrawals, transfers |-> c.total_converted]

\* the conversions alone
RothOnly(bals, month_income) ==
    LET c == RothOfMonth(bals, month_income)
    IN [balances |-> c.balances, withdrawals |-> 0, transfers |-> c.total_converted]

ConversionsExpected ==
    IF Cur.month # 12 THEN RothOnly(balances, loc.month_taxable_ordinary_income)
    ELSE IF plan.withdrawal_strategy.rmd_satisfied_first
    THEN RmdThenRoth(balances, loc.month_taxable_ordinary_income)
    ELSE RothThenRmd(balances, loc.month_taxable_ordinary_income)

ConversionsStepTaken == pc = "conversions" /\ pc' = "expenses"

\* C23: in a month other than December no RMD is executed; in December
\* exactly one RMD pass is executed, before the month's Roth conversions
\* when rmd_satisfied_first is true (its income narrowing the
\* fill-to-bracket room) and after them when it is false (on the balance
\* the conversions left).
C23_RmdOncePerDecemberInOrder ==
    [][ConversionsStepTaken =>
          /\ balances' = ConversionsExpected.balances
          /\ loc'.month_withdrawals = loc.month_withdrawals + ConversionsExpected.withdrawals
          /\ loc'.month_transfers = loc.month_transfers + ConversionsExpected.transfers
          /\ Cur.month # 12 => loc'.month_withdrawals = loc.month_withdrawals]_vars

\* a December whose RMD and conversion are both positive and whose outcome
\* depends on the order of the two
C23_Witness ==
    /\ pc = "conversions"
    /\ Cur.month = 12
    /\ plan.withdrawal_strategy.rmd_satisfied_first
    /\ RmdThenRoth(balances, loc.month_taxable_ordinary_income).withdrawals > 0
    /\ RmdThenRoth(balances, loc.month_taxable_ordinary_income).transfers > 0
    /\ RmdThenRoth(balances, loc.month_taxable_ordinary_income)
         # RothThenRmd(balances, loc.month_taxable_ordinary_income)

----------------------------------------------------------------------------
(* The monthly estimated-tax installment.                                  *)

EstimatedStepTaken == pc = "estimated_tax" /\ pc' = "rollup"

\* projectedSettlement x month / 12
TargetEstimatedPaid == MulDiv(ProjectedSettlement(annual_by_year[Cur.year]), Cur.month, 12)

\* C24: the installment paid in a month is not negative, is at most
\* max(0, target - estimated tax already paid this year), the target being
\* projectedSettlement x month / 12, and is at most the non-negative cash
\* left by the waterfall funding; the year's cumulative payments grow by
\* it, never decrease, and equal the target when it is paid in full.
C24_EstimatedInstallmentBounded ==
    [][EstimatedStepTaken =>
          LET paid == loc'.month_tax_estimated_payment - loc.month_tax_estimated_payment
              due == Max(0, TargetEstimatedPaid - annual_estimated_tax_paid[Cur.year])
          IN /\ paid >= 0
             /\ paid <= due
             /\ paid <= Max(0, balances'[cash_account] + paid)
             /\ annual_estimated_tax_paid'[Cur.year] = annual_estimated_tax_paid[Cur.year] + paid
             /\ annual_estimated_tax_paid'[Cur.year] >= annual_estimated_tax_paid[Cur.year]
             /\ (paid = due /\ due > 0) => annual_estimated_tax_paid'[Cur.year] = TargetEstimatedPaid]_vars

\* an installment that the waterfall could fund only in part: cash is
\* emptied and the month is flagged insolvent
C24_Witness ==
    /\ pc = "rollup"
    /\ loc.month_tax_estimated_payment > 0
    /\ loc.month_withdrawals > 0
    /\ obs.max_remaining > 1
    /\ balances[cash_account] = 0
    /\ annual_estimated_tax_paid[Cur.year] = loc.month_tax_estimated_payment

----------------------------------------------------------------------------
(* compute_capital_gains_tax as a function of its arguments.  The other    *)
(* taxable income is what compute_total_tax passes: max(0, ordinary income *)
(* - deduction).  Amounts are whole dollars, in cents.                     *)

MaxGainsCalls == 2

GainsAmounts == {Cents(d) : d \in {0 - 1000, 0, 10000, 50000, 600000, 700000}}

GainsOtherIncomes == {Cents(d) : d \in {0, 10000, 50800, 52324, 120000, 557000, 600000}}

GainsInit ==
    /\ plan = [tax_settings |-> DefaultTaxSettings]
    /\ call = [gains |-> 0, other_taxable_income |-> 0, filing_status |-> "single", year |-> BASE_TAX_YEAR, calls |-> 0]
    /\ ret = [tax |-> 0]
    /\ pc = "call"
    /\ balances = EmptyMap
    /\ cost_basis = EmptyMap
    /\ EngineIdle

\* compute_capital_gains_tax(gains, other_taxable_income, filing_status, year)
GainsCompute ==
    /\ pc = "call"
    /\ call.calls < MaxGainsCalls
    /\ \E gains \in GainsAmounts, other \in GainsOtherIncomes,
          fs \in {"single", "married_filing_jointly"}, year \in {BASE_TAX_YEAR, BASE_TAX_YEAR + 1} :
         /\ call' = [gains |-> gains, other_taxable_income |-> other, filing_status |-> fs,
                     year |-> year, calls |-> call.calls + 1]
         /\ ret' = [tax |-> compute_capital_gains_tax(gains, other, fs, year, TaxInflation)]
    /\ UNCHANGED <<plan, pc, balances, cost_basis, engineVars>>

GainsNext == GainsCompute

SpecGains == GainsInit /\ [][GainsNext]_vars

\* the ceilings of the 0% and of the 15% band of the call's year and status
GainsZeroCeiling ==
    _year_factor(Cents(CAPITAL_GAINS_BRACKETS(call.filing_status)[1].upper), call.year, TaxInflation)

GainsFifteenCeiling ==
    _year_factor(Cents(CAPITAL_GAINS_BRACKETS(call.filing_status)[2].upper), call.year, TaxInflation)

\* C26: gains are stacked on the ordinary taxable income: what fits in
\* max(0, zero ceiling - ordinary income) is taxed at 0%, the rest fills the
\* 15% band up to its ceiling, measured from the ordinary income, and what
\* is beyond is taxed at 20%; for the same gains the tax does not decrease
\* when the ordinary taxable income is higher.
C26_GainsStackedOnOrdinaryIncome ==
    call.calls > 0 =>
      LET g == Max(0, call.gains)
          o == call.other_taxable_income
          at_zero == Min(g, Max(0, GainsZeroCeiling - o))
          at_fifteen == Min(g - at_zero, Max(0, GainsFifteenCeiling - Max(o, GainsZeroCeiling)))
          at_twenty == g - at_zero - at_fifteen
      IN /\ ret.tax = (at_fifteen * 15) \div 100 + (at_twenty * 20) \div 100
         /\ \A higher \in GainsOtherIncomes :
              higher >= o =>
                compute_capital_gains_tax(call.gains, higher, call.filing_status, call.year, TaxInflation) >= ret.tax

\* 700,000 of gains on 10,000 of ordinary income (single, 2026): 40,800 at
\* 0%, 506,200 at 15% and 153,000 at 20%
C26_Witness ==
    /\ call.calls > 0
    /\ call.gains = Cents(700000)
    /\ call.other_taxable_income = Cents(10000)
    /\ call.filing_status = "single"
    /\ call.year = 2026
    /\ ret.tax = Cents(75930) + Cents(30600)

----------------------------------------------------------------------------
(* Real assets (real_assets.py) and the engine's monthly step 14 on one    *)
(* asset of fixed value.  Rates are whole percents a year.                 *)

\* (total_payment, principal_paid, interest_paid) without the cap on the principal
mortgage_payment_Uncapped(state, asset) ==
    IF ~asset.has_mortgage \/ state.mortgage_balance <= 0
    THEN [total_payment |-> 0, principal |-> 0, interest |-> 0, mortgage_balance |-> state.mortgage_balance]
    ELSE LET interest_component == MulDiv(state.mortgage_balance, asset.mortgage.interest_rate, 1200)
             principal_component == Max(0, asset.mortgage.payment - interest_component)
         IN [total_payment |-> interest_component + principal_component,
             principal |-> principal_component,
             interest |-> interest_component,
             mortgage_balance |-> state.mortgage_balance - principal_component]

\* (total_payment, principal_paid, interest_paid) and the balance it leaves
mortgage_payment(state, asset) ==
    IF ~asset.has_mortgage \/ state.mortgage_balance <= 0
    THEN [total_payment |-> 0, principal |-> 0, interest |-> 0, mortgage_balance |-> state.mortgage_balance]
    ELSE LET interest_component == MulDiv(state.mortgage_balance, asset.mortgage.interest_rate, 1200)
             principal_component == Min(Max(0, asset.mortgage.payment - interest_component),
                                        state.mortgage_balance)
         IN [total_payment |-> interest_component + principal_component,
             principal |-> principal_component,
             interest |-> interest_component,
             mortgage_balance |-> state.mortgage_balance - principal_component]

\* max(0, current_value * property_tax_rate / 12)
property_tax_monthly(state, asset) == Max(0, MulDiv(state.current_value, asset.property_tax_rate, 1200))

MaxMortgageMonths == 4

MortgagePayments == {0, Cents(600), Cents(2000)}
MortgageBalances == {0, Cents(1000), Cents(100000)}
MortgageRates == {0, 6, 24}

MortgageInit ==
    /\ \E payment \in MortgagePayments, remaining_balance \in MortgageBalances,
          interest_rate \in MortgageRates, has_mortgage \in BOOLEAN, property_tax_rate \in {0, 1} :
         plan = [real_assets |-> << [name |-> "Home", current_value |-> Cents(100000),
                                     change_over_time |-> "fixed", property_tax_rate |-> property_tax_rate,
                                     has_mortgage |-> has_mortgage,
                                     mortgage |-> [payment |-> payment, remaining_balance |-> remaining_balance,
                                                   interest_rate |-> interest_rate]] >>]
    /\ call = [real_asset_state |->
                   [Home |-> [current_value |-> plan.real_assets[1].current_value,
                              mortgage_balance |-> IF plan.real_assets[1].has_mortgage
                                                   THEN plan.real_assets[1].mortgage.remaining_balance ELSE 0]],
               balance_before |-> 0, months |-> 0]
    /\ ret = [charges |-> <<>>, month_real_asset_expenses |-> 0, month_mortgage_interest |-> 0]
    /\ pc = "months"
    /\ balances = EmptyMap
    /\ cost_basis = EmptyMap
    /\ EngineIdle

\* Step 14 of one month: no appreciation (fixed value), the property tax,
\* the mortgage payment; the asset has no maintenance expenses.
MortgageMonth ==
    /\ pc = "months"
    /\ call.months < MaxMortgageMonths
    /\ LET asset == plan.real_assets[1]
           state == call.real_asset_state["Home"]
           property_tax == property_tax_monthly(state, asset)
           p == mortgage_payment(state, asset)
       IN /\ call' = [real_asset_state |-> [Home |-> [state EXCEPT !.mortgage_balance = p.mortgage_balance]],
                      balance_before |-> state.mortgage_balance,
                      months |-> call.months + 1]
          /\ ret' = [charges |-> Append(ret.charges, p.total_payment),
                     month_real_asset_expenses |-> property_tax + p.total_payment,
                     month_mortgage_interest |-> p.interest]
    /\ UNCHANGED <<plan, pc, balances, cost_basis, engineVars>>

MortgageNext == MortgageMonth

SpecMortgage == MortgageInit /\ [][MortgageNext]_vars

MortgageBalance == call.real_asset_state["Home"].mortgage_balance

\* C27: a mortgage balance is never below 0 and never increases; a month's
\* charge is the interest on the balance plus a principal of
\* min(max(0, payment - interest), balance), the payoff month charges what
\* remains and, the balance being 0, every later month charges nothing.
C27_MortgageBalanceBounded ==
    /\ MortgageBalance >= 0
    /\ call.months > 0 =>
         LET asset == plan.real_assets[1]
             interest == IF asset.has_mortgage
                         THEN (call.balance_before * asset.mortgage.interest_rate) \div 1200 ELSE 0
             principal == IF asset.has_mortgage
                          THEN Min(Max(0, asset.mortgage.payment - interest), call.balance_before) ELSE 0
         IN /\ MortgageBalance <= call.balance_before
            /\ MortgageBalance = call.balance_before - principal
            /\ ret.charges[call.months] = interest + principal
            /\ ret.month_mortgage_interest = interest
            /\ call.balance_before = 0 => ret.charges[call.months] = 0

\* payment 600 on a balance of 1,000 at 0%: charges 600, 400, 0, 0
C27_Witness ==
    /\ call.months = 4
    /\ plan.real_assets[1].has_mortgage
    /\ plan.real_assets[1].mortgage.payment = Cents(600)
    /\ plan.real_assets[1].mortgage.remaining_balance = Cents(1000)
    /\ plan.real_assets[1].mortgage.interest_rate = 0
    /\ ret.charges = << Cents(600), Cents(400), 0, 0 >>
    /\ MortgageBalance = 0

----------------------------------------------------------------------------
(* What cover_shortfall moves.                                             *)

\* the amounts of the returned events drawn on one account, and on all
WfDrawnOn(name) ==
    SumSeq([i \in 1..Len(ret.events) |-> IF ret.events[i].account = name THEN ret.events[i].amount ELSE 0])

WfDrawnTotal == SumSeq([i \in 1..Len(ret.events) |-> ret.events[i].amount])

----------------------------------------------------------------------------
(* Contributions (steps 5-7) and recurring transfers (step 8) of the       *)
(* engine's month, on a plan with nothing else: no income, expenses,       *)
(* growth, dividends or fees.  st = [balances, cost_basis, basis,          *)
(* month_contributions, month_transfers, month_realized_cg,                *)
(* month_taxable_ordinary_income] is threaded through the loops.           *)

IsTracked(accounts, name, basis) ==
    AccountNamed(accounts, name).type = "taxable_brokerage" /\ name \in DOMAIN basis

\* one contribution without employer match
ContributionBooked(st, contribution, accounts, cash) ==
    LET amount == _amount_for_month(contribution)
        source == contribution.source_account
        dest == contribution.destination_account
        from_income == source = "income"
        debited == IF from_income
                   THEN [st.balances EXCEPT ![cash] = @ - amount]
                   ELSE [st.balances EXCEPT ![source] = @ - amount]
        w == IF ~from_income /\ IsTracked(accounts, source, st.cost_basis)
             THEN CostBasisWithdraw(st.cost_basis[source], amount, st.balances[source])
             ELSE [gain |-> 0, total_basis |-> 0]
        basis1 == IF ~from_income /\ IsTracked(accounts, source, st.cost_basis)
                  THEN [st.cost_basis EXCEPT ![source] = w.total_basis]
                  ELSE st.cost_basis
    IN [st EXCEPT
           !.balances = [debited EXCEPT ![dest] = @ + amount],
           !.cost_basis = IF IsTracked(accounts, dest, basis1)
                          THEN [basis1 EXCEPT ![dest] = CostBasisAdd(@, amount)]
                          ELSE basis1,
           !.basis = _record_roth_basis_contribution(st.basis, dest, amount),
           !.month_realized_cg = @ + w.gain,
           !.month_contributions = @ + amount]

RECURSIVE ContributionsLoop(_, _, _, _, _, _)
ContributionsLoop(st, contributions, accounts, cash, cur, p) ==
    IF contributions = <<>> THEN st
    ELSE ContributionsLoop(
             IF _occurs_this_month(Head(contributions), cur, p.plan_start, p.plan_end)
             THEN ContributionBooked(st, Head(contributions), accounts, cash)
             ELSE st,
             Tail(contributions), accounts, cash, cur, p)

\* one recurring transfer
TransferBooked(st, transfer, accounts) ==
    LET amount == transfer.amount
        from == transfer.from_account
        to == transfer.to_account
        source_before == st.balances[from]
        debited == [st.balances EXCEPT ![from] = @ - amount]
        tracked == IsTracked(accounts, from, st.cost_basis)
        w == IF tracked THEN CostBasisWithdraw(st.cost_basis[from], amount, source_before)
             ELSE [gain |-> 0, total_basis |-> 0]
        basis1 == IF tracked THEN [st.cost_basis EXCEPT ![from] = w.total_basis] ELSE st.cost_basis
    IN [st EXCEPT
           !.balances = [debited EXCEPT ![to] = @ + amount],
           !.cost_basis = IF IsTracked(accounts, to, basis1)
                          THEN [basis1 EXCEPT ![to] = CostBasisAdd(@, amount)]
                          ELSE basis1,
           !.basis = _record_roth_basis_contribution(st.basis, to, amount),
           !.month_transfers = @ + amount,
           !.month_realized_cg = @ + w.gain,
           !.month_taxable_ordinary_income =
               IF ~tracked /\ transfer.tax_treatment = "income" THEN @ + amount ELSE @]

RECURSIVE TransfersLoop(_, _, _, _, _)
TransfersLoop(st, transfers, accounts, cur, p) ==
    IF transfers = <<>> THEN st
    ELSE TransfersLoop(
             IF _occurs_this_month(Head(transfers), cur, p.plan_start, p.plan_end)
             THEN TransferBooked(st, Head(transfers), accounts)
             ELSE st,
             Tail(transfers), accounts, cur, p)

MaxXferMonths == 3

\* amounts and balances are cents

\* a monthly contribution from income or from the brokerage account
XferContributions ==
    { <<>> }
    \cup { << [name |-> "Save", source_account |-> source, destination_account |-> dest,
               amount |-> amount, frequency |-> "monthly", start_date |-> DateStart,
               end_date |-> DateEnd, change_over_time |-> "fixed", has_employer_match |-> FALSE] >> :
             source \in {"income", "Brk"}, dest \in {"Roth", "Ira"}, amount \in {500, 2000} }

\* a monthly or one-time transfer out of the IRA or the brokerage account
XferTransfers ==
    { <<>> }
    \cup { << [name |-> "Move", from_account |-> from, to_account |-> "Roth",
               amount |-> amount, frequency |-> frequency, start_date |-> Ym(2026, 2),
               end_date |-> DateEnd, tax_treatment |-> treatment] >> :
             from \in {"Ira", "Brk"}, amount \in {800, 3000},
             frequency \in {"monthly", "one_time"}, treatment \in {"income", "none"} }

XferStartBalances == {0, 1000, 5000}

XferState(bals, cb, basis) ==
    [balances |-> bals, cost_basis |-> cb, basis |-> basis,
     month_contributions |-> 0, month_transfers |-> 0, month_realized_cg |-> 0,
     month_taxable_ordinary_income |-> 0]

XferInit ==
    /\ \E n \in 1..MaxXferMonths, contributions \in XferContributions, transfers \in XferTransfers,
          brk \in XferStartBalances, ira \in XferStartBalances :
         plan = [plan_start |-> Ym(2026, 1), plan_end |-> MonthsAfter(Ym(2026, 1), n),
                 accounts |-> EngAccounts(10000, brk, brk \div 2, ira, 0),
                 contributions |-> contributions, transfers |-> transfers]
    /\ balances = [name \in AccountNames(plan.accounts) |-> AccountNamed(plan.accounts, name).balance]
    /\ cost_basis = [name \in {"Brk"} |-> AccountNamed(plan.accounts, name).cost_basis]
    /\ roth_contribution_basis = [name \in {"Roth"} |-> Max(0, AccountNamed(plan.accounts, name).balance)]
    /\ call = [pos |-> 1, closed |-> 0]
    /\ ret = [month_contributions |-> 0, month_transfers |-> 0, month_realized_cg |-> 0,
              month_taxable_ordinary_income |-> 0, account_balances_end |-> EmptyMap]
    /\ pc = "contributions"
    /\ EngineIdleButBasis

XferMonths == _iter_months(plan.plan_start, plan.plan_end)

XferBooked(st) ==
    /\ balances' = st.balances
    /\ cost_basis' = st.cost_basis
    /\ roth_contribution_basis' = st.basis
    /\ ret' = [ret EXCEPT !.month_contributions = st.month_contributions,
                          !.month_transfers = st.month_transfers,
                          !.month_realized_cg = st.month_realized_cg,
                          !.month_taxable_ordinary_income = st.month_taxable_ordinary_income]

\* Steps 5-7 of the month.
XferContribute ==
    /\ pc = "contributions"
    /\ XferBooked(ContributionsLoop(XferState(balances, cost_basis, roth_contribution_basis),
                                    plan.contributions, plan.accounts, _pick_cash_account(plan.accounts),
                                    XferMonths[call.pos], plan))
    /\ pc' = "transfers"
    /\ UNCHANGED <<plan, call, engineVarsButBasis>>

\* Step 8 of the month.
XferTransfer ==
    /\ pc = "transfers"
    /\ XferBooked(TransfersLoop([XferState(balances, cost_basis, roth_contribution_basis) EXCEPT
                                    !.month_contributions = ret.month_contributions,
                                    !.month_realized_cg = ret.month_realized_cg],
                                plan.transfers, plan.accounts, XferMonths[call.pos], plan))
    /\ pc' = "close"
    /\ UNCHANGED <<plan, call, engineVarsButBasis>>

\* The month's close: the MonthResult reports max(0, balance) per account.
XferClose ==
    /\ pc = "close"
    /\ ret' = [month_contributions |-> 0, month_transfers |-> 0, month_realized_cg |-> 0,
               month_taxable_ordinary_income |-> 0,
               account_balances_end |-> [name \in DOMAIN balances |-> Max(0, balances[name])]]
    /\ call' = [pos |-> IF call.pos < Len(XferMonths) THEN call.pos + 1 ELSE call.pos,
                closed |-> call.closed + 1]
    /\ pc' = IF call.pos < Len(XferMonths) THEN "contributions" ELSE "done"
    /\ UNCHANGED <<plan, balances, cost_basis, engineVars>>

XferNext == XferContribute \/ XferTransfer \/ XferClose

SpecTransfers == XferInit /\ [][XferNext]_vars

\* C29: starting from non-negative balances, no account other than the
\* cash account has a negative balance at the end of a month.
C29_NonCashNeverNegative ==
    (pc \in {"contributions", "done"} /\ call.closed > 0) =>
        \A name \in DOMAIN balances :
            name # _pick_cash_account(plan.accounts) => balances[name] >= 0

----------------------------------------------------------------------------
(* The annual tax settlement and the months it is booked in.               *)

\* the MonthResult of the December of `year`, if it was simulated
HasDecember(months, year) ==
    \E i \in 1..Len(months) : months[i].year = year /\ months[i].month = 12

DecemberOf(months, year) ==
    months[CHOOSE i \in 1..Len(months) : months[i].year = year /\ months[i].month = 12]

\* what the settlement leaves in the AnnualResult `annual` of a year and in
\* the MonthResults `months` of the run
SettlementBooked(months, annual) ==
    /\ annual.tax_payment >= 0 /\ annual.tax_refund >= 0
    /\ annual.tax_payment = 0 \/ annual.tax_refund = 0
    /\ IF HasDecember(months, annual.year)
       THEN DecemberOf(months, annual.year).tax_settlement =
                annual.tax_payment - annual.tax_refund
       ELSE annual.tax_total = 0 /\ annual.tax_payment = 0 /\ annual.tax_refund = 0

\* C30: the annual tax settlement is booked in December and in no other
\* month: a MonthResult outside December has tax_settlement 0, the December
\* of a year has tax_settlement = tax_payment - tax_refund of that year with
\* at most one of the two positive, and a year whose December was not
\* simulated keeps tax_total, tax_payment and tax_refund at 0.
C30_SettlementOnlyInDecember ==
    /\ \A i \in 1..Len(monthly_results) :
         monthly_results[i].month # 12 => monthly_results[i].tax_settlement = 0
    /\ pc \in {"income", "return"} =>
         \A y \in DOMAIN annual_by_year : SettlementBooked(monthly_results, annual_by_year[y])
    /\ pc = "done" =>
         /\ \A i \in 1..Len(ret.monthly) :
              ret.monthly[i].month # 12 => ret.monthly[i].tax_settlement = 0
         /\ \A i \in 1..Len(ret.annual) : SettlementBooked(ret.monthly, ret.annual[i])

\* a run over 2026-11, 2026-12 and 2027-01: the installment of November
\* exceeds the year's tax, December refunds the difference and 2027,
\* whose December is not simulated, stays at 0
C30_Witness ==
    /\ pc = "done"
    /\ Len(ret.monthly) = 3 /\ Len(ret.annual) = 2
    /\ ret.monthly[1].month = 11 /\ ret.monthly[1].tax_settlement = 0
    /\ ret.monthly[1].tax_estimated_payment > 0
    /\ ret.monthly[2].month = 12 /\ ret.monthly[2].tax_settlement < 0
    /\ ret.annual[1].tax_refund = 0 - ret.monthly[2].tax_settlement
    /\ ret.annual[1].tax_payment = 0
    /\ ret.annual[1].tax_total > 0
    /\ ret.monthly[3].month = 1 /\ ret.monthly[3].tax_settlement = 0
    /\ ret.annual[2].year = 2027 /\ ret.annual[2].tax_total = 0

====
